---- MODULE Spec2Model ----
(***************************************************************************)
(* Vortex wake bookkeeping and Biot-Savart induction of awebox             *)
(* (awebox/mdl/aero/induction_dir/vortex_dir/tools.py, biot_savart.py).    *)
(*                                                                         *)
(* The functions of tools.py are pure: they read the wake position streams *)
(* (variables['xd']), the circulation strength streams (variables['xl']),  *)
(* the architecture and the discretisation (n_k, d, periods_tracked) and   *)
(* return casadi matrices.  The state of the model is these inputs plus    *)
(* `ret`, the value returned by the last call.  One action per function.   *)
(*                                                                         *)
(* Five specifications share the state: Spec calls the functions that      *)
(* build the filament table, SpecInduction those that read one vector of   *)
(* the wake and build the segment table, SpecKernel the kernel filament(), *)
(* its self-test and the sum of a kernel over a segment table,             *)
(* SpecAssembly takes get_list_of_all_filaments step by step and repeats   *)
(* calls, SpecFrame has all entry points side by side.                     *)
(*                                                                         *)
(* Conventions.  A casadi column vector is a sequence; a casadi matrix is  *)
(* a sequence of rows.  Python indices are 0-based: At(v, i) reads v[i]    *)
(* with the wrap-around of negative indices that python and casadi apply.  *)
(***************************************************************************)
EXTENDS Integers, Sequences, FiniteSets, TLC

(***************************************************************************)
(* Bounds of the model.                                                    *)
(***************************************************************************)
MaxNk == 3
MaxD == 2
MaxPeriods == 2
MaxKites == 2
MaxSeed == 1
MaxCoord == 2
MaxColumns == 3

VARIABLES
    n_k,              \* options['aero']['vortex']['n_k']
    d,                \* options['aero']['vortex']['d']
    periods_tracked,  \* options['aero']['vortex']['periods_tracked']
    kite_nodes,       \* architecture.kite_nodes
    parent_map,       \* architecture.parent_map
    variables_xd,     \* variables['xd']: name -> stream of samples
    variables_xl,     \* variables['xl']: name -> stream of samples
    u_vec_ref,        \* reference convection velocity (3-vector)
    variables_q,      \* variables['xd']['q' + kite + parent]: kite -> position
    epsilon,          \* options['aero']['vortex']['epsilon'], in hundredths
    ret               \* what the last call returned (or that it raised)

vars == <<n_k, d, periods_tracked, kite_nodes, parent_map, variables_xd,
          variables_xl, u_vec_ref, variables_q, epsilon, ret>>

inputs == <<n_k, d, periods_tracked, kite_nodes, parent_map, variables_xd,
            variables_xl, u_vec_ref, variables_q, epsilon>>

(***************************************************************************)
(* casadi / python primitives, as tools.py uses them.                      *)
(***************************************************************************)

\* a casadi matrix is dense: its entries are values, computed once
dense(v) == v \o <<>>

\* v[i] for a python index i: negative indices count from the end.
At(v, i) == IF i >= 0 THEN v[i + 1] ELSE v[Len(v) + i + 1]

\* v[i] raises unless -len <= i < len.
index_ok(v, i) == (-Len(v) <= i) /\ (i < Len(v))

\* var[1:]
slice_from_1(var) == IF Len(var) <= 1 THEN <<>> ELSE Tail(var)

\* cas.reshape(column vector, (nrow, ncol)): casadi is column-major.
reshape(v, nrow, ncol) ==
    dense([i \in 1..nrow |-> dense([j \in 1..ncol |-> v[(i - 1) + (j - 1) * nrow + 1]])])

\* faulty variant: a longer vector is cut to size instead of refused
reshape_ok_lenient(v, nrow, ncol) == Len(v) >= nrow * ncol

\* cas.reshape raises when the number of elements changes.
reshape_ok(v, nrow, ncol) == Len(v) = nrow * ncol

\* M.T
transpose(M) ==
    IF Len(M) = 0 THEN <<>>
    ELSE dense([j \in 1..Len(M[1]) |-> dense([i \in 1..Len(M) |-> M[i][j]])])

\* cas.reshape(M, (n, 1)): the column-major linearisation of M.
reshape_to_column(M, n) ==
    dense([k \in 1..n |-> M[((k - 1) % Len(M)) + 1][((k - 1) \div Len(M)) + 1]])

\* v[::-1]
reversed(v) == dense([k \in 1..Len(v) |-> v[Len(v) + 1 - k]])

\* cas.horzcat(a, b, c, ...) of column vectors of one length: a matrix.
horzcat_columns(cols) == transpose(cols)

\* a + s * b on row vectors
vec_add_scaled(a, s, b) == dense([j \in 1..Len(a) |-> a[j] + s * b[j]])

(***************************************************************************)
(* Names of the variables, as the string concatenations of tools.py build  *)
(* them: 'w' + dim + '_' + tip + '_' + period + '_' + kite + parent and    *)
(* 'wg' + '_' + period + '_' + kite + parent.                              *)
(***************************************************************************)
dims == <<"x", "y", "z">>

Tips == {"int", "ext"}

xd_name(dim, tip, period, kite, parent) ==
    [sym |-> "w", dim |-> dim, tip |-> tip, period |-> period,
     kite |-> kite, parent |-> parent]

xl_name(period, kite, parent) ==
    [sym |-> "wg", period |-> period, kite |-> kite, parent |-> parent]

(***************************************************************************)
(* Sample access and reordering of one stream.                             *)
(***************************************************************************)
get_wake_var_at_ndx_ddx(nk, dd, var, start, ndx, ddx) ==
    IF start THEN At(var, 0)
    ELSE reshape(slice_from_1(var), nk, dd)[ndx + 1][ddx + 1]

get_strength_at_ndx_ddx(xl, nk, dd, period, kite, parent, ndx, ddx) ==
    reshape(xl[xl_name(period, kite, parent)], nk, dd)[ndx + 1][ddx + 1]

\* faulty variant: the transposition is left out
without_start_not_transposed(nk, dd, var) ==
    LET n_regular == nk * dd
        var_regular == slice_from_1(var)
        var_reshape == reshape(var_regular, nk, dd)
        time_ordered == reshape_to_column(var_reshape, n_regular)
    IN  reversed(time_ordered)

get_time_ordered_wake_var_without_start(nk, dd, var) ==
    LET n_regular == nk * dd
        var_regular == slice_from_1(var)
        var_reshape == reshape(var_regular, nk, dd)
        time_ordered == reshape_to_column(transpose(var_reshape), n_regular)
    IN  reversed(time_ordered)

without_start_ok(nk, dd, var) == reshape_ok(slice_from_1(var), nk, dd)

\* faulty variant: the start sample is put first
with_start_in_front(nk, dd, var) ==
    LET var_start == At(var, 0)
        without_start == get_time_ordered_wake_var_without_start(nk, dd, var)
    IN  <<var_start>> \o without_start

get_time_ordered_wake_var_with_start(nk, dd, var) ==
    LET var_start == At(var, 0)
        without_start == get_time_ordered_wake_var_without_start(nk, dd, var)
    IN  without_start \o <<var_start>>

with_start_ok(nk, dd, var) == index_ok(var, 0) /\ without_start_ok(nk, dd, var)

\* faulty variant: the strengths are not transposed before they are linearised
time_ordered_strength_not_transposed(nk, dd, var) ==
    LET n_regular == nk * dd
        var_reshape == reshape(var, nk, dd)
        time_ordered == reshape_to_column(var_reshape, n_regular)
    IN  reversed(time_ordered)

get_time_ordered_strength(nk, dd, var) ==
    LET n_regular == nk * dd
        var_reshape == reshape(var, nk, dd)
        time_ordered == reshape_to_column(transpose(var_reshape), n_regular)
    IN  reversed(time_ordered)

\* faulty variant: the strength stream is taken to begin with a start sample
strength_ok_with_start(nk, dd, var) == reshape_ok(slice_from_1(var), nk, dd)

strength_ok(nk, dd, var) == reshape_ok(var, nk, dd)

(***************************************************************************)
(* Time-ordered points and strengths of one kite over all tracked periods. *)
(***************************************************************************)
RECURSIVE vertcat_all(_)
\* cas.vertcat applied in a loop that starts from []
vertcat_all(blocks) ==
    IF blocks = <<>> THEN <<>>
    ELSE Head(blocks) \o vertcat_all(Tail(blocks))

\* faulty variant: every period keeps its start sample
all_ordered_with_every_start(xd, nk, dd, periods, kite, parent, tip, dim) ==
    vertcat_all(dense([p \in 1..periods |->
        get_time_ordered_wake_var_with_start(
            nk, dd, xd[xd_name(dim, tip, p - 1, kite, parent)])]))

\* faulty variant: the first period keeps its start sample, not the last
all_ordered_first_period_with_start(xd, nk, dd, periods, kite, parent, tip, dim) ==
    LET first == get_time_ordered_wake_var_with_start(
                     nk, dd, xd[xd_name(dim, tip, 0, kite, parent)])
        later == dense([p \in 1..(periods - 1) |->
                    get_time_ordered_wake_var_without_start(
                        nk, dd, xd[xd_name(dim, tip, p, kite, parent)])])
    IN  first \o vertcat_all(later)

\* the column all_ordered that the loop over the periods builds for one dim
all_ordered_of_dim(xd, nk, dd, periods, kite, parent, tip, dim) ==
    LET older == dense([p \in 1..(periods - 1) |->
                    get_time_ordered_wake_var_without_start(
                        nk, dd, xd[xd_name(dim, tip, p - 1, kite, parent)])])
        period == periods - 1
        var == xd[xd_name(dim, tip, period, kite, parent)]
    IN  vertcat_all(older) \o get_time_ordered_wake_var_with_start(nk, dd, var)

get_all_time_ordered_points_by_kite_and_tip(xd, nk, dd, periods, kite, parent, tip) ==
    horzcat_columns(dense([c \in 1..Len(dims) |->
        all_ordered_of_dim(xd, nk, dd, periods, kite, parent, tip, dims[c])]))

all_points_ok(xd, nk, dd, periods, kite, parent, tip) ==
    \A c \in 1..Len(dims) :
        /\ \A p \in 0..(periods - 2) :
              /\ xd_name(dims[c], tip, p, kite, parent) \in DOMAIN xd
              /\ without_start_ok(nk, dd, xd[xd_name(dims[c], tip, p, kite, parent)])
        /\ xd_name(dims[c], tip, periods - 1, kite, parent) \in DOMAIN xd
        /\ with_start_ok(nk, dd, xd[xd_name(dims[c], tip, periods - 1, kite, parent)])

\* faulty variant: both extension points are projected downstream
padded_points_both_downstream(xd, nk, dd, periods, kite, parent, tip, u_ref, inf_time) ==
    LET regular == get_all_time_ordered_points_by_kite_and_tip(
                       xd, nk, dd, periods, kite, parent, tip)
        infinite_leading == vec_add_scaled(At(regular, 0), inf_time, u_ref)
        infinite_trailing == vec_add_scaled(At(regular, -1), inf_time, u_ref)
    IN  <<infinite_leading>> \o regular \o <<infinite_trailing>>

get_padded_points_by_kite_and_tip(xd, nk, dd, periods, kite, parent, tip, u_ref, inf_time) ==
    LET regular == get_all_time_ordered_points_by_kite_and_tip(
                       xd, nk, dd, periods, kite, parent, tip)
        leading == At(regular, 0)
        trailing == At(regular, -1)
        infinite_leading == vec_add_scaled(leading, inf_time * (-1), u_ref)
        infinite_trailing == vec_add_scaled(trailing, inf_time, u_ref)
    IN  <<infinite_leading>> \o regular \o <<infinite_trailing>>

get_all_time_ordered_strengths_by_kite(xl, nk, dd, periods, kite, parent) ==
    vertcat_all(dense([p \in 1..periods |->
        get_time_ordered_strength(nk, dd, xl[xl_name(p - 1, kite, parent)])]))

all_strengths_ok(xl, nk, dd, periods, kite, parent) ==
    \A p \in 0..(periods - 1) :
        /\ xl_name(p, kite, parent) \in DOMAIN xl
        /\ strength_ok(nk, dd, xl[xl_name(p, kite, parent)])

\* faulty variant: the zero is put at the oldest end and the newest strength repeated
padded_strengths_zero_behind(xl, nk, dd, periods, kite, parent) ==
    LET regular == get_all_time_ordered_strengths_by_kite(xl, nk, dd, periods, kite, parent)
    IN  <<At(regular, 0)>> \o regular \o <<0>>

\* faulty variant: the trailing padding is a zero instead of the oldest strength
padded_strengths_zero_at_both_ends(xl, nk, dd, periods, kite, parent) ==
    LET regular == get_all_time_ordered_strengths_by_kite(xl, nk, dd, periods, kite, parent)
    IN  <<0>> \o regular \o <<0>>

get_padded_strengths_by_kite(xl, nk, dd, periods, kite, parent) ==
    LET regular == get_all_time_ordered_strengths_by_kite(xl, nk, dd, periods, kite, parent)
        trailing == At(regular, -1)
        infinite_leading == 0
        infinite_trailing == trailing
    IN  <<infinite_leading>> \o regular \o <<infinite_trailing>>

(***************************************************************************)
(* One vortex ring: three filaments, each a row                            *)
(* (start point, end point, strength) of 3 + 3 + 1 entries.                *)
(***************************************************************************)
\* the indices get_vortex_ring_filaments reads for ring rdx
ring_reads(rdx) ==
    [points |-> {rdx + 1, rdx}, strengths |-> {rdx, rdx - 1}]

ring_ok(padded_strengths, padded_points_ext, padded_points_int, rdx) ==
    /\ \A i \in ring_reads(rdx).points :
          index_ok(padded_points_int, i) /\ index_ok(padded_points_ext, i)
    /\ \A i \in ring_reads(rdx).strengths : index_ok(padded_strengths, i)

\* faulty variant: the ring is closed by a fourth segment
ring_filaments_closed(padded_strengths, padded_points_ext, padded_points_int, rdx) ==
    LET int_trailing == At(padded_points_int, rdx + 1)
        int_leading == At(padded_points_int, rdx)
        ext_leading == At(padded_points_ext, rdx)
        ext_trailing == At(padded_points_ext, rdx + 1)
        strength_leading == At(padded_strengths, rdx)
        strength_trailing == At(padded_strengths, rdx - 1)
    IN  << int_trailing \o int_leading \o <<strength_leading>>,
           int_leading \o ext_leading \o <<strength_leading - strength_trailing>>,
           ext_leading \o ext_trailing \o <<strength_leading>>,
           ext_trailing \o int_trailing \o <<strength_leading>> >>

\* faulty variant: the first segment runs from the leading to the trailing point
ring_filaments_first_reversed(padded_strengths, padded_points_ext, padded_points_int, rdx) ==
    LET int_trailing == At(padded_points_int, rdx + 1)
        int_leading == At(padded_points_int, rdx)
        ext_leading == At(padded_points_ext, rdx)
        ext_trailing == At(padded_points_ext, rdx + 1)
        strength_leading == At(padded_strengths, rdx)
        strength_trailing == At(padded_strengths, rdx - 1)
    IN  << int_leading \o int_trailing \o <<strength_leading>>,
           int_leading \o ext_leading \o <<strength_leading - strength_trailing>>,
           ext_leading \o ext_trailing \o <<strength_leading>> >>

\* faulty variant: the middle segment keeps the whole strength of the ring
ring_filaments_undiminished(padded_strengths, padded_points_ext, padded_points_int, rdx) ==
    LET int_trailing == At(padded_points_int, rdx + 1)
        int_leading == At(padded_points_int, rdx)
        ext_leading == At(padded_points_ext, rdx)
        ext_trailing == At(padded_points_ext, rdx + 1)
        strength_leading == At(padded_strengths, rdx)
    IN  << int_trailing \o int_leading \o <<strength_leading>>,
           int_leading \o ext_leading \o <<strength_leading>>,
           ext_leading \o ext_trailing \o <<strength_leading>> >>

\* faulty variant: the trailing points are taken from the other tip
ring_filaments_trailing_crossed(padded_strengths, padded_points_ext, padded_points_int, rdx) ==
    LET int_trailing == At(padded_points_ext, rdx + 1)
        int_leading == At(padded_points_int, rdx)
        ext_leading == At(padded_points_ext, rdx)
        ext_trailing == At(padded_points_int, rdx + 1)
        strength_leading == At(padded_strengths, rdx)
        strength_trailing == At(padded_strengths, rdx - 1)
    IN  << int_trailing \o int_leading \o <<strength_leading>>,
           int_leading \o ext_leading \o <<strength_leading - strength_trailing>>,
           ext_leading \o ext_trailing \o <<strength_leading>> >>

get_vortex_ring_filaments(padded_strengths, padded_points_ext, padded_points_int, rdx) ==
    LET int_trailing == At(padded_points_int, rdx + 1)
        int_leading == At(padded_points_int, rdx)
        ext_leading == At(padded_points_ext, rdx)
        ext_trailing == At(padded_points_ext, rdx + 1)
        strength_leading == At(padded_strengths, rdx)
        strength_trailing == At(padded_strengths, rdx - 1)
    IN  << int_trailing \o int_leading \o <<strength_leading>>,
           int_leading \o ext_leading \o <<strength_leading - strength_trailing>>,
           ext_leading \o ext_trailing \o <<strength_leading>> >>

get_number_of_rings_per_kite(nk, dd, periods) == (periods * nk * dd) + 2

\* python's range(lo, hi), in loop order
range_seq(lo, hi) == dense([k \in 1..(hi - lo) |-> lo + k - 1])

\* faulty variant: range(0, n_rings)
ring_range_from_0(n_rings) == range_seq(0, n_rings)

\* faulty variant: range(1, n_rings + 1)
ring_range_one_more(n_rings) == range_seq(1, n_rings + 1)

\* range(1, n_rings): the ring indices the loop of get_list_of_filaments_by_kite visits
ring_range(n_rings) == range_seq(1, n_rings)

(***************************************************************************)
(* The filament list of one kite and of all kites.                         *)
(***************************************************************************)
\* the padded sequences get_list_of_filaments_by_kite builds before its loop
padded_of(args) ==
    [strengths |-> get_padded_strengths_by_kite(args.variables_xl, args.n_k, args.d,
                       args.periods_tracked, args.kite, args.parent),
     points_int |-> get_padded_points_by_kite_and_tip(args.variables_xd, args.n_k, args.d,
                       args.periods_tracked, args.kite, args.parent, "int",
                       args.u_vec_ref, args.infinite_time),
     points_ext |-> get_padded_points_by_kite_and_tip(args.variables_xd, args.n_k, args.d,
                       args.periods_tracked, args.kite, args.parent, "ext",
                       args.u_vec_ref, args.infinite_time)]

streams_ok(args) ==
    /\ all_strengths_ok(args.variables_xl, args.n_k, args.d, args.periods_tracked,
                        args.kite, args.parent)
    /\ \A tip \in Tips :
          all_points_ok(args.variables_xd, args.n_k, args.d, args.periods_tracked,
                        args.kite, args.parent, tip)

by_kite_ok(args) ==
    /\ streams_ok(args)
    /\ LET padded == padded_of(args)
           order == ring_range(Len(padded.strengths))
       IN  \A k \in 1..Len(order) :
              ring_ok(padded.strengths, padded.points_ext, padded.points_int, order[k])

get_list_of_filaments_by_kite(args) ==
    LET padded_strengths ==
            get_padded_strengths_by_kite(args.variables_xl, args.n_k, args.d,
                args.periods_tracked, args.kite, args.parent)
        padded_points_int ==
            get_padded_points_by_kite_and_tip(args.variables_xd, args.n_k, args.d,
                args.periods_tracked, args.kite, args.parent, "int",
                args.u_vec_ref, args.infinite_time)
        padded_points_ext ==
            get_padded_points_by_kite_and_tip(args.variables_xd, args.n_k, args.d,
                args.periods_tracked, args.kite, args.parent, "ext",
                args.u_vec_ref, args.infinite_time)
        n_rings == Len(padded_strengths)
        order == ring_range(n_rings)
    IN  vertcat_all(dense([k \in 1..Len(order) |->
            get_vortex_ring_filaments(padded_strengths, padded_points_ext,
                                      padded_points_int, order[k])]))

infinite_time == 1000

\* the args dictionary of get_list_of_all_filaments, as it is when kite is handled
args_of(xd, xl, u_ref, periods, nk, dd, kite, parent) ==
    [variables_xd |-> xd, variables_xl |-> xl, u_vec_ref |-> u_ref,
     infinite_time |-> infinite_time, periods_tracked |-> periods,
     n_k |-> nk, d |-> dd, kite |-> kite, parent |-> parent]

all_filaments_ok(xd, xl, kites, parents, u_ref, periods, nk, dd) ==
    \A k \in 1..Len(kites) :
        /\ kites[k] \in DOMAIN parents
        /\ by_kite_ok(args_of(xd, xl, u_ref, periods, nk, dd, kites[k], parents[kites[k]]))

get_list_of_all_filaments(xd, xl, kites, parents, u_ref, periods, nk, dd) ==
    LET filaments ==
            vertcat_all(dense([k \in 1..Len(kites) |->
                get_list_of_filaments_by_kite(
                    args_of(xd, xl, u_ref, periods, nk, dd, kites[k], parents[kites[k]]))]))
    IN  transpose(filaments)

(***************************************************************************)
(* One position or velocity vector of the wake (get_vector_var).           *)
(***************************************************************************)
\* sym + dim + '_' + tip + '_' + str(period) + '_' + str(kite) + str(parent)
var_name(sym, dim, tip, period, kite, parent) ==
    [sym |-> sym, dim |-> dim, tip |-> tip, period |-> period,
     kite |-> kite, parent |-> parent]

\* sym is assigned only for 'pos' and 'vel'; any other type is logged and sym
\* stays unbound, so that building the first name raises
sym_bound(pos_vel) == pos_vel \in {"pos", "vel"}

sym_of(pos_vel) == IF pos_vel = "pos" THEN "w" ELSE "dw"

\* get_wake_var_at_ndx_ddx raises nothing
wake_var_ok(nk, dd, var, start, ndx, ddx) ==
    IF start THEN index_ok(var, 0)
    ELSE /\ reshape_ok(slice_from_1(var), nk, dd)
         /\ (-nk <= ndx) /\ (ndx < nk) /\ (-dd <= ddx) /\ (ddx < dd)

\* the lookup variables[loc][name] of component k succeeds
comp_known(xd, sym, tip, period, kite, parent, k) ==
    var_name(sym, dims[k], tip, period, kite, parent) \in DOMAIN xd

\* comp_all is bound when component k is read: a lookup has succeeded so far
comp_all_bound(xd, sym, tip, period, kite, parent, k) ==
    \E j \in 1..k : comp_known(xd, sym, tip, period, kite, parent, j)

\* comp_all when component k is read: the stream found under the name of the
\* component or, after a failed lookup (the except branch only logs), the
\* stream the variable still holds from the component before
RECURSIVE comp_all_at(_, _, _, _, _, _, _)
comp_all_at(xd, sym, tip, period, kite, parent, k) ==
    IF comp_known(xd, sym, tip, period, kite, parent, k)
    THEN xd[var_name(sym, dims[k], tip, period, kite, parent)]
    ELSE comp_all_at(xd, sym, tip, period, kite, parent, k - 1)

\* component k is read without a raise
comp_ok(xd, nk, dd, sym, tip, period, kite, parent, start, ndx, ddx, k) ==
    /\ comp_all_bound(xd, sym, tip, period, kite, parent, k)
    /\ wake_var_ok(nk, dd, comp_all_at(xd, sym, tip, period, kite, parent, k),
                   start, ndx, ddx)

get_vector_var_ok(xd, nk, dd, pos_vel, tip, period, kite, parent, start, ndx, ddx) ==
    /\ sym_bound(pos_vel)
    /\ \A k \in 1..Len(dims) :
          comp_ok(xd, nk, dd, sym_of(pos_vel), tip, period, kite, parent,
                  start, ndx, ddx, k)

\* awelogger.logger.error was called before the function returned or raised
vector_var_logged(xd, nk, dd, pos_vel, tip, period, kite, parent, start, ndx, ddx) ==
    \/ ~sym_bound(pos_vel)
    \/ \E k \in 1..Len(dims) :
          /\ ~comp_known(xd, sym_of(pos_vel), tip, period, kite, parent, k)
          /\ \A j \in 1..(k - 1) :
                comp_ok(xd, nk, dd, sym_of(pos_vel), tip, period, kite, parent,
                        start, ndx, ddx, j)

get_vector_var(xd, nk, dd, pos_vel, tip, period, kite, parent, start, ndx, ddx) ==
    dense([k \in 1..Len(dims) |->
        get_wake_var_at_ndx_ddx(nk, dd,
            comp_all_at(xd, sym_of(pos_vel), tip, period, kite, parent, k),
            start, ndx, ddx)])

(***************************************************************************)
(* One ring of one kite, asked for by its index.                           *)
(***************************************************************************)
\* vect_op.xhat(): the unit vector along x
xhat == <<1, 0, 0>>

\* infinite_time as get_list_of_filaments_by_kite_and_ring sets it
infinite_time_by_kite_and_ring == 1000

\* faulty variant: the extension points of a single ring lie nearer
ring_args_nearer_extension(xd, xl, velocity_ref, periods, nk, dd, kite, parent) ==
    [args_of(xd, xl, vec_add_scaled(<<0, 0, 0>>, velocity_ref, xhat), periods, nk, dd,
             kite, parent)
        EXCEPT !.infinite_time = 100]

\* the args of get_list_of_filaments_by_kite_and_ring: the reference velocity is
\* wind.get_velocity_ref() * xhat
ring_args_of(xd, xl, velocity_ref, periods, nk, dd, kite, parent) ==
    [args_of(xd, xl, vec_add_scaled(<<0, 0, 0>>, velocity_ref, xhat), periods, nk, dd,
             kite, parent)
        EXCEPT !.infinite_time = infinite_time_by_kite_and_ring]

\* no indexing of the padded sequences raises when ring rdx is taken from them
by_kite_and_ring_ok(args, rdx) ==
    /\ streams_ok(args)
    /\ LET padded == padded_of(args)
       IN  ring_ok(padded.strengths, padded.points_ext, padded.points_int, rdx)

get_list_of_filaments_by_kite_and_ring(args, rdx) ==
    LET padded == padded_of(args)
    IN  get_vortex_ring_filaments(padded.strengths, padded.points_ext,
                                  padded.points_int, rdx)

(***************************************************************************)
(* The Biot-Savart kernel of one straight filament (biot_savart.py).       *)
(*                                                                         *)
(* Coordinates and strengths are integers and epsilon is held in           *)
(* hundredths.  The norms are square roots and the factor carries 1/(4 pi),*)
(* so the kernel is kept as the expression filament() builds: a smoothed   *)
(* norm is the record of the square it is the root of, the factor is the   *)
(* multiple of 1/(4 pi), and sums, products and the quotient are records   *)
(* of their operands.  The floor of the smoothed norm is positive and      *)
(* smaller than anything the integers can tell apart.                      *)
(***************************************************************************)
\* cas.mtimes(a.T, b)
dot(a, b) == a[1] * b[1] + a[2] * b[2] + a[3] * b[3]

\* vect_op.cross(a, b)
cross(a, b) ==
    <<a[2] * b[3] - a[3] * b[2], a[3] * b[1] - a[1] * b[3], a[1] * b[2] - a[2] * b[1]>>

\* vect_op.smooth_norm(v): the root of v.v plus the floor
smooth_norm(v) == [sq |-> dot(v, v)]

\* faulty variant: the outer product of the denominator takes r1 twice
filament_r1_twice(seg_data) ==
    LET point_obs == SubSeq(seg_data, 1, 3)
        point_1 == SubSeq(seg_data, 4, 6)
        point_2 == SubSeq(seg_data, 7, 9)
        vec_1 == vec_add_scaled(point_obs, -1, point_1)
        vec_2 == vec_add_scaled(point_obs, -1, point_2)
        vec_0 == vec_add_scaled(point_2, -1, point_1)
        r1 == smooth_norm(vec_1)
        r2 == smooth_norm(vec_2)
        r0 == smooth_norm(vec_0)
    IN  [dir |-> cross(vec_1, vec_2),
         scale |-> [factor |-> seg_data[10],
                    num |-> <<r1, r2>>,
                    den |-> [ori |-> [norms |-> <<r1, r1>>, dot |-> dot(vec_1, vec_2)],
                             reg |-> [eps |-> seg_data[11], norm |-> r0]]]]

\* faulty variant: vec_2 is point_obs + point_2
filament_vec_2_sum(seg_data) ==
    LET point_obs == SubSeq(seg_data, 1, 3)
        point_1 == SubSeq(seg_data, 4, 6)
        point_2 == SubSeq(seg_data, 7, 9)
        vec_1 == vec_add_scaled(point_obs, -1, point_1)
        vec_2 == vec_add_scaled(point_obs, 1, point_2)
        vec_0 == vec_add_scaled(point_2, -1, point_1)
        r1 == smooth_norm(vec_1)
        r2 == smooth_norm(vec_2)
        r0 == smooth_norm(vec_0)
    IN  [dir |-> cross(vec_1, vec_2),
         scale |-> [factor |-> seg_data[10],
                    num |-> <<r1, r2>>,
                    den |-> [ori |-> [norms |-> <<r1, r2>>, dot |-> dot(vec_1, vec_2)],
                             reg |-> [eps |-> seg_data[11], norm |-> r0]]]]

\* faulty variant: the direction is cross(vec_2, vec_1)
filament_cross_swapped(seg_data) ==
    LET point_obs == SubSeq(seg_data, 1, 3)
        point_1 == SubSeq(seg_data, 4, 6)
        point_2 == SubSeq(seg_data, 7, 9)
        vec_1 == vec_add_scaled(point_obs, -1, point_1)
        vec_2 == vec_add_scaled(point_obs, -1, point_2)
        vec_0 == vec_add_scaled(point_2, -1, point_1)
        r1 == smooth_norm(vec_1)
        r2 == smooth_norm(vec_2)
        r0 == smooth_norm(vec_0)
    IN  [dir |-> cross(vec_2, vec_1),
         scale |-> [factor |-> seg_data[10],
                    num |-> <<r1, r2>>,
                    den |-> [ori |-> [norms |-> <<r1, r2>>, dot |-> dot(vec_1, vec_2)],
                             reg |-> [eps |-> seg_data[11], norm |-> r0]]]]

\* filament(seg_data): sol = dir * scale with
\*   dir = cross(vec_1, vec_2)
\*   scale = factor * num / den, factor = Gamma / (4 pi), num = r1 + r2
\*   den = den_ori + den_reg, den_ori = (r1 * r2) * (r1 * r2 + vec_1.vec_2),
\*   den_reg = (epsilon * r0) ** 2
filament(seg_data) ==
    LET point_obs == SubSeq(seg_data, 1, 3)
        point_1 == SubSeq(seg_data, 4, 6)
        point_2 == SubSeq(seg_data, 7, 9)
        Gamma == seg_data[10]
        eps == seg_data[11]
        vec_1 == vec_add_scaled(point_obs, -1, point_1)
        vec_2 == vec_add_scaled(point_obs, -1, point_2)
        vec_0 == vec_add_scaled(point_2, -1, point_1)
        r1 == smooth_norm(vec_1)
        r2 == smooth_norm(vec_2)
        r0 == smooth_norm(vec_0)
        factor == Gamma
        num == <<r1, r2>>
        den_ori == [norms |-> <<r1, r2>>, dot |-> dot(vec_1, vec_2)]
        den_reg == [eps |-> eps, norm |-> r0]
        den == [ori |-> den_ori, reg |-> den_reg]
        dir == cross(vec_1, vec_2)
        scale == [factor |-> factor, num |-> num, den |-> den]
    IN  [dir |-> dir, scale |-> scale]

(***************************************************************************)
(* The segment table (get_biot_savart_segment_list): the filament table    *)
(* with the observation point on top and epsilon, and the normal if asked  *)
(* for, below.  A table is a sequence of rows.                             *)
(***************************************************************************)
\* vect_op.ones_sx((1, n)) * s
ones_times(n, s) == dense([j \in 1..n |-> 1 * s])

\* faulty variant: epsilon is written to the first column only
segment_list_eps_in_first_column(filament_list, eps, point_obs, include_normal_info, n_hat) ==
    LET n_filaments == Len(filament_list[1])
        point_obs_extended ==
            dense([jdx \in 1..3 |-> ones_times(n_filaments, point_obs[jdx])])
        eps_extended ==
            <<dense([j \in 1..n_filaments |-> IF j = 1 THEN eps ELSE 0])>>
        n_hat_ext == dense([jdx \in 1..3 |-> ones_times(n_filaments, n_hat[jdx])])
    IN  IF include_normal_info
        THEN point_obs_extended \o filament_list \o eps_extended \o n_hat_ext
        ELSE point_obs_extended \o filament_list \o eps_extended

\* faulty variant: the normal is put in front of epsilon
segment_list_normal_before_eps(filament_list, eps, point_obs, include_normal_info, n_hat) ==
    LET n_filaments == Len(filament_list[1])
        point_obs_extended ==
            dense([jdx \in 1..3 |-> ones_times(n_filaments, point_obs[jdx])])
        eps_extended == <<ones_times(n_filaments, eps)>>
        n_hat_ext == dense([jdx \in 1..3 |-> ones_times(n_filaments, n_hat[jdx])])
    IN  IF include_normal_info
        THEN point_obs_extended \o filament_list \o n_hat_ext \o eps_extended
        ELSE point_obs_extended \o filament_list \o eps_extended

get_biot_savart_segment_list(filament_list, eps, point_obs, include_normal_info, n_hat) ==
    LET n_filaments == Len(filament_list[1])
        point_obs_extended ==
            dense([jdx \in 1..3 |-> ones_times(n_filaments, point_obs[jdx])])
        eps_extended == <<ones_times(n_filaments, eps)>>
        n_hat_ext == dense([jdx \in 1..3 |-> ones_times(n_filaments, n_hat[jdx])])
        segment_list ==
            IF include_normal_info
            THEN point_obs_extended \o filament_list \o eps_extended \o n_hat_ext
            ELSE point_obs_extended \o filament_list \o eps_extended
    IN  segment_list

(***************************************************************************)
(* The self-test of the kernel.  The comparison resi > 1.e-8 is evaluated  *)
(* on bounds: a norm is enclosed by its root in tenths rounded down and    *)
(* that root plus one, and the comparison has the outcome the bounds       *)
(* decide, or either outcome when they do not decide it.                   *)
(***************************************************************************)
\* vect_op.yhat(), vect_op.zhat()
yhat == <<0, 1, 0>>

zhat == <<0, 0, 1>>

Min2(a, b) == IF a <= b THEN a ELSE b

Max2(a, b) == IF a <= b THEN b ELSE a

\* the largest r in lo..hi with r*r <= n, by bisection
RECURSIVE isqrt_between(_, _, _)
isqrt_between(n, lo, hi) ==
    IF lo >= hi THEN lo
    ELSE LET mid == (lo + hi + 1) \div 2
         IN  IF mid * mid <= n THEN isqrt_between(n, mid, hi)
             ELSE isqrt_between(n, lo, mid - 1)

\* the largest r with r*r <= n (n below 2^31, so r below 46341)
isqrt(n) == isqrt_between(n, 0, 46340)

\* bounds of a smoothed norm, in tenths
norm_tenths(r) == LET lo == isqrt(100 * r.sq) IN <<lo, lo + 1>>

\* bounds of r1 * r2: the square itself when both are the root of one square
product_bounds(r1, r2) ==
    IF r1.sq = r2.sq THEN <<r1.sq, r1.sq>>
    ELSE LET a == norm_tenths(r1)
             b == norm_tenths(r2)
         IN  <<(a[1] * b[1]) \div 100, ((a[2] * b[2]) \div 100) + 1>>

\* bounds of den = (r1 * r2) * (r1 * r2 + dot) + (epsilon * r0) ** 2, epsilon in
\* hundredths and r0 in tenths
den_bounds(den) ==
    LET p == product_bounds(den.ori.norms[1], den.ori.norms[2])
        r0 == norm_tenths(den.reg.norm)
        reg_lo == ((den.reg.eps * r0[1]) * (den.reg.eps * r0[1])) \div 1000000
        reg_hi == (((den.reg.eps * r0[2]) * (den.reg.eps * r0[2])) \div 1000000) + 1
    IN  <<p[1] * (p[1] + den.ori.dot) + reg_lo, p[2] * (p[2] + den.ori.dot) + reg_hi>>

\* bounds of the square of a number within bounds
square_bounds(b) ==
    <<IF b[1] <= 0 /\ 0 <= b[2] THEN 0 ELSE Min2(b[1] * b[1], b[2] * b[2]),
      Max2(b[1] * b[1], b[2] * b[2])>>

\* the outcomes of `resi > epsilon` in test_filament: TRUE logs the error.
\* vec_norm = vec_found / (1 / (2 pi)) is dir * Gamma * (r1 + r2) / (2 * den); the
\* difference to xhat and the tolerance 1.e-8 = (1 / 10000) ** 2 are compared
\* after multiplying by 20 * den, the norms being in tenths.
test_filament_logs ==
    LET point_obs == yhat
        point_1 == vec_add_scaled(<<0, 0, 0>>, 1000, zhat)
        point_2 == vec_add_scaled(<<0, 0, 0>>, -1, point_1)
        Gamma == 1
        eps == 1
        seg_data == point_obs \o point_1 \o point_2 \o <<Gamma, eps>>
        vec_found == filament(seg_data)
        r1 == norm_tenths(vec_found.scale.num[1])
        r2 == norm_tenths(vec_found.scale.num[2])
        den == den_bounds(vec_found.scale.den)
        coef(k) == vec_found.dir[k] * vec_found.scale.factor
        difference(k) ==
            <<Min2(coef(k) * (r1[1] + r2[1]), coef(k) * (r1[2] + r2[2]))
                  - 20 * Max2(xhat[k] * den[1], xhat[k] * den[2]),
              Max2(coef(k) * (r1[1] + r2[1]), coef(k) * (r1[2] + r2[2]))
                  - 20 * Min2(xhat[k] * den[1], xhat[k] * den[2])>>
        resi == <<square_bounds(difference(1))[1] + square_bounds(difference(2))[1]
                      + square_bounds(difference(3))[1],
                  square_bounds(difference(1))[2] + square_bounds(difference(2))[2]
                      + square_bounds(difference(3))[2]>>
        tolerance == <<((20 * den[1]) \div 10000) * ((20 * den[1]) \div 10000),
                       (((20 * den[2]) \div 10000) + 1) * (((20 * den[2]) \div 10000) + 1)>>
    IN  IF resi[1] > tolerance[2] THEN {TRUE}
        ELSE IF resi[2] <= tolerance[1] THEN {FALSE}
        ELSE BOOLEAN

(***************************************************************************)
(* Inputs.  The streams are drawn from a family indexed by a seed: seed 0  *)
(* gives every sample of every stream its own value (so that a sample can  *)
(* be recognised wherever it ends up); other seeds give alternating signs  *)
(* for the positions and small repeating values, zero included, for the    *)
(* strengths; each seed comes with a reference velocity.  A position       *)
(* stream has n_k*d + 1 samples and a strength stream n_k*d; LenOffsets    *)
(* moves one of the two lengths off by one.                                *)
(***************************************************************************)
\* kite_nodes: 1..n in increasing order, or all kites in decreasing order
KiteNodeChoices ==
    {dense([k \in 1..n |-> k]) : n \in 1..MaxKites}
        \cup {dense([k \in 1..MaxKites |-> MaxKites + 1 - k])}

SeqToSet(s) == {s[k] : k \in 1..Len(s)}

tip_index(tip) == IF tip = "int" THEN 0 ELSE 1

dim_index(dim) == CHOOSE c \in 1..Len(dims) : dims[c] = dim

sample_code(kite, tip, dim, period, i) ==
    ((((kite - 1) * 2 + tip_index(tip)) * 3 + (dim_index(dim) - 1)) * MaxPeriods + period)
        * (MaxNk * MaxD + 3) + i + 1

pos_sample(seed, kite, tip, dim, period, i) ==
    LET code == sample_code(kite, tip, dim, period, i)
    IN  IF seed = 0 \/ (i + seed) % 2 = 0 THEN code ELSE 0 - code

strength_sample(seed, kite, period, i) ==
    IF seed = 0
    THEN ((kite - 1) * MaxPeriods + period) * (MaxNk * MaxD + 2) + i + 1
    ELSE ((seed * (i + 1) + period + 2 * kite) % 5) - 2

\* the reference velocity that goes with a seed: u_ref * xhat as get_filament_list
\* passes it, a general vector, still air
u_vec_ref_of(seed) ==
    IF seed = 0 THEN <<1, 0, 0>>
    ELSE IF seed % 2 = 1 THEN <<2, 1, -1>> ELSE <<0, 0, 0>>

\* the regularization radius that goes with a seed, in hundredths: 0.01, 0.02, ...
epsilon_of(seed) == seed + 1

\* the position q of a kite: the origin, or a point of its own off the axes
q_of(seed, kite) ==
    IF seed = 0 THEN <<0, 0, 0>> ELSE <<kite, 0 - seed, kite + seed>>

LenOffsets == {<<0, 0>>, <<1, 0>>, <<-1, 0>>, <<0, 1>>, <<0, -1>>}

xd_names(kites, periods) ==
    {xd_name(dims[c], tip, p, k, 0) :
        c \in 1..Len(dims), tip \in Tips, p \in 0..(periods - 1), k \in kites}

xl_names(kites, periods) ==
    {xl_name(p, k, 0) : p \in 0..(periods - 1), k \in kites}

no_call == [op |-> "none", arg |-> <<>>, err |-> FALSE, val |-> <<>>]

\* no call is under way and no result is held
idle == ret = no_call

Init ==
    /\ n_k \in 1..MaxNk
    /\ d \in 1..MaxD
    /\ periods_tracked \in 1..MaxPeriods
    /\ kite_nodes \in KiteNodeChoices
    /\ parent_map = [k \in SeqToSet(kite_nodes) |-> 0]
    /\ \E seed \in 0..MaxSeed, offs \in LenOffsets :
          /\ offs # <<0, 0>> => seed = 0
          /\ u_vec_ref = u_vec_ref_of(seed)
          /\ epsilon = epsilon_of(seed)
          /\ variables_q = [k \in SeqToSet(kite_nodes) |-> q_of(seed, k)]
          /\ variables_xd =
                [nm \in xd_names(SeqToSet(kite_nodes), periods_tracked) |->
                    dense([i \in 1..(n_k * d + 1 + offs[1]) |->
                        pos_sample(seed, nm.kite, nm.tip, nm.dim, nm.period, i - 1)])]
          /\ variables_xl =
                [nm \in xl_names(SeqToSet(kite_nodes), periods_tracked) |->
                    dense([i \in 1..(n_k * d + offs[2]) |->
                        strength_sample(seed, nm.kite, nm.period, i - 1)])]
    /\ ret = no_call

(***************************************************************************)
(* Calls.  A call that raises leaves err = TRUE and no value.              *)
(***************************************************************************)
returned(op, arg, ok, val) ==
    [op |-> op, arg |-> arg, err |-> ~ok, val |-> IF ok THEN val ELSE <<>>]

Call_get_time_ordered_wake_var_without_start ==
    /\ idle
    /\ \E nm \in DOMAIN variables_xd :
          ret' = returned("get_time_ordered_wake_var_without_start", nm,
                     without_start_ok(n_k, d, variables_xd[nm]),
                     get_time_ordered_wake_var_without_start(n_k, d, variables_xd[nm]))
    /\ UNCHANGED inputs

Call_get_time_ordered_wake_var_with_start ==
    /\ idle
    /\ \E nm \in DOMAIN variables_xd :
          ret' = returned("get_time_ordered_wake_var_with_start", nm,
                     with_start_ok(n_k, d, variables_xd[nm]),
                     get_time_ordered_wake_var_with_start(n_k, d, variables_xd[nm]))
    /\ UNCHANGED inputs

Call_get_time_ordered_strength ==
    /\ idle
    /\ \E nm \in DOMAIN variables_xl :
          ret' = returned("get_time_ordered_strength", nm,
                     strength_ok(n_k, d, variables_xl[nm]),
                     get_time_ordered_strength(n_k, d, variables_xl[nm]))
    /\ UNCHANGED inputs

Call_get_all_time_ordered_points_by_kite_and_tip ==
    /\ idle
    /\ \E kite \in DOMAIN parent_map, tip \in Tips :
          ret' = returned("get_all_time_ordered_points_by_kite_and_tip",
                     [kite |-> kite, tip |-> tip],
                     all_points_ok(variables_xd, n_k, d, periods_tracked, kite,
                                   parent_map[kite], tip),
                     get_all_time_ordered_points_by_kite_and_tip(variables_xd, n_k, d,
                         periods_tracked, kite, parent_map[kite], tip))
    /\ UNCHANGED inputs

Call_get_padded_points_by_kite_and_tip ==
    /\ idle
    /\ \E kite \in DOMAIN parent_map, tip \in Tips :
          ret' = returned("get_padded_points_by_kite_and_tip",
                     [kite |-> kite, tip |-> tip],
                     all_points_ok(variables_xd, n_k, d, periods_tracked, kite,
                                   parent_map[kite], tip),
                     get_padded_points_by_kite_and_tip(variables_xd, n_k, d,
                         periods_tracked, kite, parent_map[kite], tip, u_vec_ref,
                         infinite_time))
    /\ UNCHANGED inputs

Call_get_padded_strengths_by_kite ==
    /\ idle
    /\ \E kite \in DOMAIN parent_map :
          ret' = returned("get_padded_strengths_by_kite", [kite |-> kite],
                     all_strengths_ok(variables_xl, n_k, d, periods_tracked, kite,
                                      parent_map[kite]),
                     get_padded_strengths_by_kite(variables_xl, n_k, d, periods_tracked,
                         kite, parent_map[kite]))
    /\ UNCHANGED inputs

Call_get_number_of_rings_per_kite ==
    /\ idle
    /\ ret' = returned("get_number_of_rings_per_kite", <<>>, TRUE,
                  get_number_of_rings_per_kite(n_k, d, periods_tracked))
    /\ UNCHANGED inputs

\* every index the loop over the rings reads, per padded sequence
loop_reads(n_rings) ==
    LET order == ring_range(n_rings)
    IN  [points |-> UNION {ring_reads(order[k]).points : k \in 1..Len(order)},
         strengths |-> UNION {ring_reads(order[k]).strengths : k \in 1..Len(order)}]

current_args(kite) ==
    args_of(variables_xd, variables_xl, u_vec_ref, periods_tracked, n_k, d,
            kite, parent_map[kite])

Call_get_vortex_ring_filaments ==
    /\ idle
    /\ \E kite \in DOMAIN parent_map :
          LET args == current_args(kite)
              built == streams_ok(args)
              padded == padded_of(args)
          IN  \E rdx \in (-1)..(get_number_of_rings_per_kite(n_k, d, periods_tracked) + 1) :
                 ret' = returned("get_vortex_ring_filaments",
                            [kite |-> kite, rdx |-> rdx],
                            built /\ ring_ok(padded.strengths, padded.points_ext,
                                             padded.points_int, rdx),
                            get_vortex_ring_filaments(padded.strengths,
                                padded.points_ext, padded.points_int, rdx))
    /\ UNCHANGED inputs

Call_get_list_of_filaments_by_kite ==
    /\ idle
    /\ \E kite \in DOMAIN parent_map :
          LET args == current_args(kite)
              built == streams_ok(args)
              padded == padded_of(args)
              ok == by_kite_ok(args)
          IN  ret' = [op |-> "get_list_of_filaments_by_kite",
                      arg |-> [kite |-> kite],
                      err |-> ~ok,
                      val |-> IF ok THEN get_list_of_filaments_by_kite(args) ELSE <<>>,
                      n_strengths |-> IF built THEN Len(padded.strengths) ELSE 0,
                      n_points_int |-> IF built THEN Len(padded.points_int) ELSE 0,
                      n_points_ext |-> IF built THEN Len(padded.points_ext) ELSE 0,
                      reads |-> IF built
                                THEN loop_reads(Len(padded.strengths))
                                ELSE [points |-> {}, strengths |-> {}]]
    /\ UNCHANGED inputs

Call_get_list_of_all_filaments ==
    /\ idle
    /\ ret' = returned("get_list_of_all_filaments", <<>>,
                  all_filaments_ok(variables_xd, variables_xl, kite_nodes, parent_map,
                                   u_vec_ref, periods_tracked, n_k, d),
                  get_list_of_all_filaments(variables_xd, variables_xl, kite_nodes,
                                            parent_map, u_vec_ref, periods_tracked, n_k, d))
    /\ UNCHANGED inputs

\* the ring indices a caller passes: the two ends of the valid range and the
\* indices next to them
rdx_choices(n_rings) == {-1, 0, 1, n_rings - 1, n_rings}

Call_get_list_of_filaments_by_kite_and_ring ==
    /\ idle
    /\ \E kite \in DOMAIN parent_map,
          rdx \in rdx_choices(get_number_of_rings_per_kite(n_k, d, periods_tracked)) :
          LET args == ring_args_of(variables_xd, variables_xl, u_vec_ref[1],
                          periods_tracked, n_k, d, kite, parent_map[kite])
          IN  ret' = returned("get_list_of_filaments_by_kite_and_ring",
                         [kite |-> kite, rdx |-> rdx],
                         by_kite_and_ring_ok(args, rdx),
                         get_list_of_filaments_by_kite_and_ring(args, rdx))
    /\ UNCHANGED inputs

sum_call == "evaluate_symbolic_on_segments_and_sum"

\* a call of evaluate_symbolic_on_segments_and_sum is under way: its map has
\* not finished
in_progress == ret.op = sum_call /\ ret.pc = "map"

all_call == "get_list_of_all_filaments"

\* a call of get_list_of_all_filaments is inside its loop over the kites
loop_in_progress == ret.op = all_call /\ "pc" \in DOMAIN ret /\ ret.pc = "loop"

\* the caller is done with the returned value
Discard ==
    /\ ~idle /\ ~in_progress /\ ~loop_in_progress
    /\ ret' = no_call
    /\ UNCHANGED inputs

Next ==
    \/ Call_get_time_ordered_wake_var_without_start
    \/ Call_get_time_ordered_wake_var_with_start
    \/ Call_get_time_ordered_strength
    \/ Call_get_all_time_ordered_points_by_kite_and_tip
    \/ Call_get_padded_points_by_kite_and_tip
    \/ Call_get_padded_strengths_by_kite
    \/ Call_get_number_of_rings_per_kite
    \/ Call_get_vortex_ring_filaments
    \/ Call_get_list_of_filaments_by_kite
    \/ Call_get_list_of_all_filaments
    \/ Call_get_list_of_filaments_by_kite_and_ring
    \/ Discard

Spec == Init /\ [][Next]_vars

(***************************************************************************)
(* The induction side: one vector of the wake, the segment table.  The     *)
(* streams are well formed here.                                           *)
(***************************************************************************)
InitInduction ==
    /\ n_k \in 1..MaxNk
    /\ d \in 1..MaxD
    /\ periods_tracked \in 1..MaxPeriods
    /\ kite_nodes \in KiteNodeChoices
    /\ parent_map = [k \in SeqToSet(kite_nodes) |-> 0]
    /\ \E seed \in 0..MaxSeed :
          /\ u_vec_ref = u_vec_ref_of(seed)
          /\ epsilon = epsilon_of(seed)
          /\ variables_q = [k \in SeqToSet(kite_nodes) |-> q_of(seed, k)]
          /\ variables_xd =
                [nm \in xd_names(SeqToSet(kite_nodes), periods_tracked) |->
                    dense([i \in 1..(n_k * d + 1) |->
                        pos_sample(seed, nm.kite, nm.tip, nm.dim, nm.period, i - 1)])]
          /\ variables_xl =
                [nm \in xl_names(SeqToSet(kite_nodes), periods_tracked) |->
                    dense([i \in 1..(n_k * d) |->
                        strength_sample(seed, nm.kite, nm.period, i - 1)])]
    /\ ret = no_call

\* variables['xd'] as get_vector_var is handed it: the position streams, a
\* velocity stream 'dw...' next to each of them, and none of the names in absent
xd_handed(xd, absent) ==
    LET vel == {[nm EXCEPT !.sym = "dw"] : nm \in DOMAIN xd}
    IN  [nm \in (DOMAIN xd \cup vel) \ absent |->
            IF nm.sym = "w" THEN xd[nm]
            ELSE LET pos == xd[[nm EXCEPT !.sym = "w"]]
                 IN  dense([i \in 1..Len(pos) |-> 0 - pos[i]])]

\* the quantity types a caller passes: the two known ones and an unknown one
PosVelChoices == {"pos", "vel", "acc"}

\* the components that are absent from the variables
MissingChoices == {{}, {"x"}, {"y"}, {"z"}, {"y", "z"}}

\* (start, ndx, ddx): the start sample, the first and the last regular sample
sample_choices(nk, dd) == {<<TRUE, 0, 0>>, <<FALSE, 0, 0>>, <<FALSE, nk - 1, dd - 1>>}

Call_get_vector_var ==
    /\ idle
    /\ \E pos_vel \in PosVelChoices, tip \in Tips, missing \in MissingChoices,
          at \in sample_choices(n_k, d) :
          LET kite == kite_nodes[1]
              parent == parent_map[kite]
              period == periods_tracked - 1
              absent == {var_name(sym, dm, tip, period, kite, parent) :
                            sym \in {"w", "dw"}, dm \in missing}
              xd == xd_handed(variables_xd, absent)
              ok == get_vector_var_ok(xd, n_k, d, pos_vel, tip, period, kite, parent,
                                      at[1], at[2], at[3])
          IN  ret' = [op |-> "get_vector_var",
                      arg |-> [pos_vel |-> pos_vel, tip |-> tip, period |-> period,
                               kite |-> kite, missing |-> missing, start |-> at[1],
                               ndx |-> at[2], ddx |-> at[3]],
                      err |-> ~ok,
                      val |-> IF ok
                              THEN get_vector_var(xd, n_k, d, pos_vel, tip, period,
                                       kite, parent, at[1], at[2], at[3])
                              ELSE <<>>,
                      logged |-> vector_var_logged(xd, n_k, d, pos_vel, tip, period,
                                     kite, parent, at[1], at[2], at[3])]
    /\ UNCHANGED inputs

\* general_geom.get_n_hat_var(variables, parent): the normal of the parent
NHatChoices == {<<0, 0, 1>>, <<2, -1, 2>>}

Call_get_biot_savart_segment_list ==
    /\ idle
    /\ LET filament_list ==
               get_list_of_all_filaments(variables_xd, variables_xl, kite_nodes,
                   parent_map, u_vec_ref, periods_tracked, n_k, d)
       IN  \E kite \in DOMAIN parent_map, include_normal_info \in BOOLEAN,
              n_hat \in NHatChoices :
              /\ ~include_normal_info => n_hat = <<0, 0, 1>>
              /\ ret' = returned("get_biot_savart_segment_list",
                            [kite |-> kite, include_normal_info |-> include_normal_info,
                             n_hat |-> n_hat, filament_list |-> filament_list],
                            TRUE,
                            get_biot_savart_segment_list(filament_list, epsilon,
                                variables_q[kite], include_normal_info, n_hat))
    /\ UNCHANGED inputs

NextInduction ==
    \/ Call_get_vector_var
    \/ Call_get_biot_savart_segment_list
    \/ Discard

SpecInduction == InitInduction /\ [][NextInduction]_vars

(***************************************************************************)
(* The kernel side: filament() on a grid of observation points, filament   *)
(* end points, strengths and regularization radii, and the self-test.      *)
(***************************************************************************)
InitKernel ==
    /\ n_k = 1
    /\ d = 1
    /\ periods_tracked = 1
    /\ kite_nodes = <<1>>
    /\ parent_map = [k \in {1} |-> 0]
    /\ u_vec_ref = u_vec_ref_of(0)
    /\ epsilon = epsilon_of(0)
    /\ variables_q = [k \in {1} |-> q_of(0, k)]
    /\ variables_xd =
          [nm \in xd_names({1}, 1) |->
              dense([i \in 1..2 |-> pos_sample(0, nm.kite, nm.tip, nm.dim, nm.period, i - 1)])]
    /\ variables_xl =
          [nm \in xl_names({1}, 1) |-> dense([i \in 1..1 |-> strength_sample(0, nm.kite, nm.period, i - 1)])]
    /\ ret = no_call

\* the points of the grid, and those next to the origin
GridPoints == {<<x, y, z>> : x \in 0..MaxCoord, y \in 0..MaxCoord, z \in 0..MaxCoord}

NearPoints == {<<x, y, z>> : x \in 0..1, y \in 0..1, z \in 0..1}

\* (Gamma, epsilon in hundredths)
StrengthChoices == {<<-1, 1>>, <<0, 30>>, <<2, 1>>, <<2, 30>>}

Call_filament ==
    /\ idle
    /\ \E point_obs \in GridPoints, point_1 \in NearPoints, point_2 \in GridPoints,
          s \in StrengthChoices :
          LET seg_data == point_obs \o point_1 \o point_2 \o s
          IN  ret' = returned("filament", seg_data, TRUE, filament(seg_data))
    /\ UNCHANGED inputs

\* faulty variant: the error is raised instead of logged
Call_test_filament_aborting ==
    /\ idle
    /\ \E logged \in test_filament_logs :
          ret' = [op |-> "test_filament", arg |-> <<>>, err |-> logged, val |-> <<>>,
                  logged |-> FALSE]
    /\ UNCHANGED inputs

Call_test_filament ==
    /\ idle
    /\ \E logged \in test_filament_logs :
          ret' = [op |-> "test_filament", arg |-> <<>>, err |-> FALSE, val |-> <<>>,
                  logged |-> logged]
    /\ UNCHANGED inputs

(***************************************************************************)
(* The sum of the kernel over the columns of a segment table               *)
(* (evaluate_symbolic_on_segments_and_sum).  filament_fun.map(n, 'openmp') *)
(* evaluates the columns on threads, in any order; every evaluation writes *)
(* the column of `all` that belongs to it; cas.sum2 adds the columns up.   *)
(* While the call is under way ret holds its progress: pc, the columns of  *)
(* `all` evaluated so far (<<>> for one still to come) and the order in    *)
(* which they were evaluated.                                              *)
(***************************************************************************)
\* the functions handed in as filament_fun: integer-valued functions of one
\* column, the direction of the kernel times its strength, and the squared
\* length of the filament times epsilon
FilamentFuns == {"dir_times_Gamma", "eps_times_length"}

filament_fun(name, seg_data) ==
    LET sol == filament(seg_data)
    IN  IF name = "dir_times_Gamma"
        THEN dense([k \in 1..3 |-> sol.dir[k] * sol.scale.factor])
        ELSE <<sol.scale.den.reg.eps * sol.scale.den.reg.norm.sq>>

\* the columns a segment table is made of
ColumnChoices ==
    {<<0, 1, 0, 0, 0, 0, 2, 0, 0, 2, 1>>,
     <<1, 1, 1, 0, 0, 1, 2, 0, 1, -1, 1>>,
     <<0, 0, 2, 1, 0, 0, 0, 1, 0, 3, 1>>}

\* the segment tables: 1 to MaxColumns columns
SegmentTables == UNION {[1..n -> ColumnChoices] : n \in 1..MaxColumns}

\* faulty variant: every thread reads the first column
map_column_shared(name, segment_list, j) == filament_fun(name, segment_list[1])

\* one evaluation of the map: column j of `all`
map_column(name, segment_list, j) == filament_fun(name, segment_list[j])

\* cas.sum2(all): the sum of the columns, added up in column order
RECURSIVE sum2(_)
sum2(all) ==
    IF Len(all) = 1 THEN all[1]
    ELSE LET rest == sum2(SubSeq(all, 1, Len(all) - 1))
             last == all[Len(all)]
         IN  dense([k \in 1..Len(last) |-> rest[k] + last[k]])

Call_evaluate_symbolic_on_segments_and_sum ==
    /\ idle
    /\ \E name \in FilamentFuns, segment_list \in SegmentTables :
          ret' = [op |-> sum_call,
                  arg |-> [filament_fun |-> name, segment_list |-> segment_list],
                  err |-> FALSE, val |-> <<>>, pc |-> "map",
                  all |-> dense([j \in 1..Len(segment_list) |-> <<>>]),
                  order |-> <<>>]
    /\ UNCHANGED inputs

\* a thread evaluates a column that is still to come
filament_map_column ==
    /\ in_progress
    /\ \E j \in 1..Len(ret.all) :
          /\ ret.all[j] = <<>>
          /\ ret' = [ret EXCEPT
                        !.all[j] = map_column(ret.arg.filament_fun,
                                              ret.arg.segment_list, j),
                        !.order = Append(@, j)]
    /\ UNCHANGED inputs

\* all columns are there: total = cas.sum2(all) is returned
sum2_and_return ==
    /\ in_progress
    /\ \A j \in 1..Len(ret.all) : ret.all[j] # <<>>
    /\ ret' = [ret EXCEPT !.pc = "done", !.val = sum2(ret.all)]
    /\ UNCHANGED inputs

NextKernel ==
    \/ Call_filament
    \/ Call_test_filament
    \/ Call_evaluate_symbolic_on_segments_and_sum
    \/ filament_map_column
    \/ sum2_and_return
    \/ Discard

SpecKernel == InitKernel /\ [][NextKernel]_vars

(***************************************************************************)
(* get_list_of_all_filaments step by step.  The function fills one args    *)
(* dictionary, overwrites its 'kite' and 'parent' entries for every kite   *)
(* and gathers the rows of the kites in `filaments`.  While the call is    *)
(* under way ret holds its frame: pc, the dictionary, the rows gathered so *)
(* far and the number of kites handled.  A caller may repeat a call with   *)
(* the inputs it passed before; ret then keeps the value returned before.  *)
(***************************************************************************)
\* python's dict[key] = value
set_item(dict, key, value) ==
    [k \in (DOMAIN dict) \cup {key} |-> IF k = key THEN value ELSE dict[k]]

\* faulty variant: the dictionary and the rows are module-level and outlive the call
frame_kept(xd, xl, u_ref, periods, nk, dd, left) ==
    IF left = <<>>
    THEN [args |-> [variables_xd |-> xd, variables_xl |-> xl, u_vec_ref |-> u_ref,
                    infinite_time |-> infinite_time, periods_tracked |-> periods,
                    n_k |-> nk, d |-> dd],
          filaments |-> <<>>]
    ELSE left

\* the locals args and filaments as the loop finds them: python makes them anew
\* at every call, whatever frame the call before has left
new_frame(xd, xl, u_ref, periods, nk, dd, left) ==
    [args |-> [variables_xd |-> xd, variables_xl |-> xl, u_vec_ref |-> u_ref,
               infinite_time |-> infinite_time, periods_tracked |-> periods,
               n_k |-> nk, d |-> dd],
     filaments |-> <<>>]

\* faulty variant: a kite that is already in the dictionary is not overwritten
loop_args_first_kite_kept(args, kite, parent) ==
    IF "kite" \in DOMAIN args THEN args
    ELSE set_item(set_item(args, "kite", kite), "parent", parent)

\* args['kite'] = kite; args['parent'] = parent
loop_args(args, kite, parent) ==
    set_item(set_item(args, "kite", kite), "parent", parent)

\* the state of a call that has just built its locals; left is the frame of the
\* call before and before the value it returned
entered(left, calls, before) ==
    LET frame == new_frame(variables_xd, variables_xl, u_vec_ref, periods_tracked,
                           n_k, d, left)
    IN  [op |-> all_call, arg |-> <<>>, err |-> FALSE, val |-> <<>>, pc |-> "loop",
         args |-> frame.args, filaments |-> frame.filaments, kdx |-> 0,
         calls |-> calls, before |-> before]

Enter_get_list_of_all_filaments ==
    /\ idle
    /\ ret' = entered(<<>>, 1, <<>>)
    /\ UNCHANGED inputs

\* faulty variant: the strength streams of a kite are taken out of the variables
\* once its rows are built
kite_step_consuming ==
    /\ loop_in_progress
    /\ ret.kdx < Len(kite_nodes)
    /\ LET kite == kite_nodes[ret.kdx + 1]
           args == loop_args(ret.args, kite, parent_map[kite])
       IN  /\ ret' = [ret EXCEPT !.args = args,
                                 !.filaments = @ \o get_list_of_filaments_by_kite(args),
                                 !.kdx = @ + 1]
           /\ variables_xl' = [nm \in {n \in DOMAIN variables_xl : n.kite # kite} |->
                                  variables_xl[nm]]
    /\ UNCHANGED <<n_k, d, periods_tracked, kite_nodes, parent_map, variables_xd,
                   u_vec_ref, variables_q, epsilon>>

\* one pass of the loop over kite_nodes
get_list_of_all_filaments_kite_step ==
    /\ loop_in_progress
    /\ ret.kdx < Len(kite_nodes)
    /\ LET kite == kite_nodes[ret.kdx + 1]
           known == kite \in DOMAIN parent_map
           args == IF known THEN loop_args(ret.args, kite, parent_map[kite])
                   ELSE ret.args
           ok == known /\ by_kite_ok(args)
       IN  ret' = IF ok
                  THEN [ret EXCEPT !.args = args,
                                   !.filaments = @ \o get_list_of_filaments_by_kite(args),
                                   !.kdx = @ + 1]
                  ELSE [ret EXCEPT !.args = args, !.err = TRUE, !.pc = "done"]
    /\ UNCHANGED inputs

\* horz_filaments = filaments.T is returned
get_list_of_all_filaments_return ==
    /\ loop_in_progress
    /\ ret.kdx = Len(kite_nodes)
    /\ ret' = [ret EXCEPT !.pc = "done", !.val = transpose(ret.filaments)]
    /\ UNCHANGED inputs

\* the caller calls get_list_of_all_filaments a second time
Call_get_list_of_all_filaments_again ==
    /\ ret.op = all_call /\ ret.pc = "done" /\ ~ret.err /\ ret.calls = 1
    /\ ret' = entered([args |-> ret.args, filaments |-> ret.filaments], 2, ret.val)
    /\ UNCHANGED inputs

\* the caller calls get_biot_savart_segment_list a second time
Call_get_biot_savart_segment_list_again ==
    /\ ret.op = "get_biot_savart_segment_list"
    /\ "before" \notin DOMAIN ret
    /\ ret' = [op |-> ret.op, arg |-> ret.arg, err |-> FALSE,
               val |-> get_biot_savart_segment_list(ret.arg.filament_list, epsilon,
                           variables_q[ret.arg.kite], ret.arg.include_normal_info,
                           ret.arg.n_hat),
               calls |-> 2, before |-> ret.val]
    /\ UNCHANGED inputs

NextAssembly ==
    \/ Enter_get_list_of_all_filaments
    \/ get_list_of_all_filaments_kite_step
    \/ get_list_of_all_filaments_return
    \/ Call_get_list_of_all_filaments_again
    \/ Call_get_list_of_filaments_by_kite
    \/ Call_get_list_of_filaments_by_kite_and_ring
    \/ Call_get_biot_savart_segment_list
    \/ Call_get_biot_savart_segment_list_again
    \/ Discard

SpecAssembly == InitInduction /\ [][NextAssembly]_vars

(***************************************************************************)
(* All entry points side by side, on the largest wake of the bounds: the   *)
(* filament table (get_filament_list and what it calls), one ring, the     *)
(* segment table and the sum over a segment table.                         *)
(***************************************************************************)
get_filament_list(xd, xl, kites, parents, velocity_ref, periods, nk, dd) ==
    LET u_ref == vec_add_scaled(<<0, 0, 0>>, velocity_ref, xhat)
    IN  get_list_of_all_filaments(xd, xl, kites, parents, u_ref, periods, nk, dd)

Call_get_filament_list ==
    /\ idle
    /\ LET u_ref == vec_add_scaled(<<0, 0, 0>>, u_vec_ref[1], xhat)
       IN  ret' = returned("get_filament_list", <<>>,
                      all_filaments_ok(variables_xd, variables_xl, kite_nodes,
                                       parent_map, u_ref, periods_tracked, n_k, d),
                      get_filament_list(variables_xd, variables_xl, kite_nodes,
                                        parent_map, u_vec_ref[1], periods_tracked, n_k, d))
    /\ UNCHANGED inputs

InitFrame ==
    /\ n_k = MaxNk
    /\ d = MaxD
    /\ periods_tracked = MaxPeriods
    /\ kite_nodes = dense([k \in 1..MaxKites |-> k])
    /\ parent_map = [k \in SeqToSet(kite_nodes) |-> 0]
    /\ \E seed \in 0..MaxSeed :
          /\ u_vec_ref = u_vec_ref_of(seed)
          /\ epsilon = epsilon_of(seed)
          /\ variables_q = [k \in SeqToSet(kite_nodes) |-> q_of(seed, k)]
          /\ variables_xd =
                [nm \in xd_names(SeqToSet(kite_nodes), periods_tracked) |->
                    dense([i \in 1..(n_k * d + 1) |->
                        pos_sample(seed, nm.kite, nm.tip, nm.dim, nm.period, i - 1)])]
          /\ variables_xl =
                [nm \in xl_names(SeqToSet(kite_nodes), periods_tracked) |->
                    dense([i \in 1..(n_k * d) |->
                        strength_sample(seed, nm.kite, nm.period, i - 1)])]
    /\ ret = no_call

NextFrame ==
    \/ Call_get_filament_list
    \/ Enter_get_list_of_all_filaments
    \/ get_list_of_all_filaments_kite_step
    \/ get_list_of_all_filaments_return
    \/ Call_get_list_of_filaments_by_kite_and_ring
    \/ Call_get_biot_savart_segment_list
    \/ Call_evaluate_symbolic_on_segments_and_sum
    \/ filament_map_column
    \/ sum2_and_return
    \/ Discard

SpecFrame == InitFrame /\ [][NextFrame]_vars

(***************************************************************************)
(* Properties.                                                             *)
(***************************************************************************)

\* every stream has the length the reordering reshapes: n_k*d + 1 samples of
\* position, n_k*d samples of strength
well_formed ==
    /\ \A nm \in DOMAIN variables_xd : Len(variables_xd[nm]) = n_k * d + 1
    /\ \A nm \in DOMAIN variables_xl : Len(variables_xl[nm]) = n_k * d

\* the number of regular samples of all tracked periods
n_tracked == periods_tracked * n_k * d

\* the last call was op and it returned a value
returned_from(op) == ret.op = op /\ ~ret.err

\* C1: one kite yields 3*(periods_tracked*n_k*d + 1) filaments, and the table of
\* all kites has 7 rows and kite_count times that many columns, whatever the
\* stream values are.
C1_FilamentCount ==
    /\ ret.op = "get_list_of_filaments_by_kite" /\ well_formed
          => ~ret.err /\ Len(ret.val) = 3 * (n_tracked + 1)
    /\ ret.op = "get_list_of_all_filaments" /\ well_formed
          => /\ ~ret.err
             /\ Len(ret.val) = 7
             /\ \A r \in 1..Len(ret.val) :
                   Len(ret.val[r]) = Len(kite_nodes) * 3 * (n_tracked + 1)

C1_Witness ==
    /\ returned_from("get_list_of_all_filaments")
    /\ Len(kite_nodes) = 2 /\ n_k = 3 /\ d = 2 /\ periods_tracked = 2
    /\ Len(ret.val[1]) = 78

\* the ring index of the last call of get_vortex_ring_filaments is one the loop visits
ring_in_loop ==
    /\ ret.arg.rdx >= 1
    /\ ret.arg.rdx < get_number_of_rings_per_kite(n_k, d, periods_tracked)

\* C2: ring rdx is three segments, in this order: interior trailing -> interior
\* leading with the ring's strength, interior leading -> exterior leading with
\* the ring's strength minus the previous ring's, exterior leading -> exterior
\* trailing with the ring's strength; there is no fourth segment.
C2_RingSegments ==
    ret.op = "get_vortex_ring_filaments" /\ well_formed /\ ring_in_loop
        => /\ ~ret.err
           /\ LET padded == padded_of(current_args(ret.arg.kite))
                  r == ret.arg.rdx
                  int_leading == padded.points_int[r + 1]
                  int_trailing == padded.points_int[r + 2]
                  ext_leading == padded.points_ext[r + 1]
                  ext_trailing == padded.points_ext[r + 2]
                  this == padded.strengths[r + 1]
                  previous == padded.strengths[r]
              IN  /\ Len(ret.val) = 3
                  /\ ret.val[1] = int_trailing \o int_leading \o <<this>>
                  /\ ret.val[2] = int_leading \o ext_leading \o <<this - previous>>
                  /\ ret.val[3] = ext_leading \o ext_trailing \o <<this>>
                  /\ \A k \in 1..Len(ret.val) :
                        ~(/\ SubSeq(ret.val[k], 1, 3) = ext_trailing
                          /\ SubSeq(ret.val[k], 4, 6) = int_trailing)

C2_Witness ==
    /\ returned_from("get_vortex_ring_filaments")
    /\ ring_in_loop
    /\ ret.arg.rdx >= 2
    /\ ret.val[2][7] # ret.val[1][7]
    /\ ret.val[2][7] # 0

\* the strengths of the segments of the returned ring, added up
strength_sum == ret.val[1][7] + ret.val[2][7] + ret.val[3][7]

\* C3 as claimed: the strengths of the three segments of a ring sum to zero.
C3_Original ==
    ret.op = "get_vortex_ring_filaments" /\ well_formed /\ ring_in_loop
        => ~ret.err /\ strength_sum = 0

\* C3: the two side segments of ring rdx carry the ring's strength and the
\* middle segment carries what is left of it after the previous ring's
\* strength: middle + previous = side; the three strengths sum to
\* 3*strength[rdx] - strength[rdx-1].
C3_StrengthBalance ==
    ret.op = "get_vortex_ring_filaments" /\ well_formed /\ ring_in_loop
        => /\ ~ret.err
           /\ LET strengths == get_padded_strengths_by_kite(variables_xl, n_k, d,
                      periods_tracked, ret.arg.kite, parent_map[ret.arg.kite])
                  this == At(strengths, ret.arg.rdx)
                  previous == At(strengths, ret.arg.rdx - 1)
              IN  /\ ret.val[1][7] = ret.val[3][7]
                  /\ ret.val[2][7] + previous = ret.val[1][7]
                  /\ strength_sum = 3 * this - previous

C3_Witness ==
    /\ returned_from("get_vortex_ring_filaments")
    /\ ring_in_loop
    /\ strength_sum # 0
    /\ ret.val[2][7] < 0

\* a and b hold the same values, each as often
is_permutation(a, b) ==
    /\ Len(a) = Len(b)
    /\ \A v \in {a[k] : k \in 1..Len(a)} \cup {b[k] : k \in 1..Len(b)} :
          Cardinality({k \in 1..Len(a) : a[k] = v})
              = Cardinality({k \in 1..Len(b) : b[k] = v})

\* entry n_k*d - 1 - (ndx*d + ddx) of ordered is the sample (ndx, ddx) of var
holds_samples_of(ordered, var) ==
    \A ndx \in 0..(n_k - 1), ddx \in 0..(d - 1) :
        At(ordered, n_k * d - 1 - (ndx * d + ddx))
            = get_wake_var_at_ndx_ddx(n_k, d, var, FALSE, ndx, ddx)

\* C4: the reordering without start returns the n_k*d regular samples, a
\* permutation of var[1:], with the sample (ndx, ddx) at position
\* n_k*d - 1 - (ndx*d + ddx); the reordering with start returns the same
\* sequence followed by var[0].
C4_TimeOrder ==
    /\ ret.op = "get_time_ordered_wake_var_without_start" /\ well_formed
          => /\ ~ret.err
             /\ Len(ret.val) = n_k * d
             /\ is_permutation(ret.val, slice_from_1(variables_xd[ret.arg]))
             /\ holds_samples_of(ret.val, variables_xd[ret.arg])
    /\ ret.op = "get_time_ordered_wake_var_with_start" /\ well_formed
          => /\ ~ret.err
             /\ Len(ret.val) = n_k * d + 1
             /\ holds_samples_of(ret.val, variables_xd[ret.arg])
             /\ At(ret.val, n_k * d) = At(variables_xd[ret.arg], 0)

C4_Witness ==
    /\ returned_from("get_time_ordered_wake_var_without_start")
    /\ n_k = 3 /\ d = 2
    /\ At(ret.val, 0) = At(variables_xd[ret.arg], 6)
    /\ At(ret.val, 1) = At(variables_xd[ret.arg], 3)

\* var[k] < var[k + 1] throughout
increasing(var) == \A k \in 1..(Len(var) - 1) : var[k] < var[k + 1]

\* the regular part of a sequence reordered with start, reversed
regular_reversed(ordered) == reversed(SubSeq(ordered, 1, Len(ordered) - 1))

\* C5 as claimed: reordering an increasing stream with start and reversing the
\* regular part gives back var[1:], for every n_k and d.
C5_Original ==
    ret.op = "get_time_ordered_wake_var_with_start" /\ well_formed
        /\ increasing(variables_xd[ret.arg])
        => /\ ~ret.err
           /\ regular_reversed(ret.val) = slice_from_1(variables_xd[ret.arg])
           /\ At(ret.val, -1) = At(variables_xd[ret.arg], 0)

\* C5: reordering an increasing stream with start and reversing the regular
\* part gives back var[1:] exactly when n_k = 1 or d = 1; in general its entry
\* ndx*d + ddx is var[1 + ndx + ddx*n_k].  The start sample is the last entry.
C5_RoundTrip ==
    ret.op = "get_time_ordered_wake_var_with_start" /\ well_formed
        /\ increasing(variables_xd[ret.arg])
        => /\ ~ret.err
           /\ At(ret.val, -1) = At(variables_xd[ret.arg], 0)
           /\ Len(regular_reversed(ret.val)) = n_k * d
           /\ \A ndx \in 0..(n_k - 1), ddx \in 0..(d - 1) :
                 At(regular_reversed(ret.val), ndx * d + ddx)
                     = At(variables_xd[ret.arg], 1 + ndx + ddx * n_k)
           /\ (n_k = 1 \/ d = 1)
                 <=> regular_reversed(ret.val) = slice_from_1(variables_xd[ret.arg])

C5_Witness ==
    /\ returned_from("get_time_ordered_wake_var_with_start")
    /\ increasing(variables_xd[ret.arg])
    /\ n_k = 3 /\ d = 1
    /\ regular_reversed(ret.val) = slice_from_1(variables_xd[ret.arg])

\* the stream of one component of the points the last call was about
stream_of(c, period) ==
    variables_xd[xd_name(dims[c], ret.arg.tip, period, ret.arg.kite,
                         parent_map[ret.arg.kite])]

\* C6: the time-ordered points of a tip are periods_tracked*n_k*d + 1 rows of 3
\* columns: the periods in increasing order, each without its start sample,
\* and the start sample of the last period as the last row; a row holds the
\* x, y and z of one sample.
C6_PeriodBlocks ==
    ret.op = "get_all_time_ordered_points_by_kite_and_tip" /\ well_formed
        => /\ ~ret.err
           /\ Len(ret.val) = n_tracked + 1
           /\ \A i \in 1..Len(ret.val) : Len(ret.val[i]) = 3
           /\ \A c \in 1..3, p \in 0..(periods_tracked - 1) :
                 \A ndx \in 0..(n_k - 1), ddx \in 0..(d - 1) :
                     At(ret.val, p * n_k * d + n_k * d - 1 - (ndx * d + ddx))[c]
                         = get_wake_var_at_ndx_ddx(n_k, d, stream_of(c, p), FALSE, ndx, ddx)
           /\ \A c \in 1..3 :
                 At(ret.val, n_tracked)[c] = At(stream_of(c, periods_tracked - 1), 0)

C6_Witness ==
    /\ returned_from("get_all_time_ordered_points_by_kite_and_tip")
    /\ periods_tracked = 2 /\ n_k = 3 /\ d = 2
    /\ Len(ret.val) = 13
    /\ At(ret.val, 6)[2] = At(stream_of(2, 1), 6)

\* Which end is old.  The reordering lists the samples of a period by
\* decreasing (ndx, ddx) and puts the sample of the period's start last: it
\* returns them under the name oldest_behind.  Position 0 of a time-ordered
\* sequence is its newest end and the last position its oldest end.
newest_end == 0

oldest_end == -1

\* the strength of the sample (ndx, ddx) of a period of the kite of the last call
strength_at(period, ndx, ddx) ==
    get_strength_at_ndx_ddx(variables_xl, n_k, d, period, ret.arg.kite,
                            parent_map[ret.arg.kite], ndx, ddx)

\* the regular strength that is newest, and the one that is oldest
newest_strength == strength_at(0, n_k - 1, d - 1)

oldest_strength == strength_at(periods_tracked - 1, 0, 0)

\* C7 as claimed: the zero strength is added at the oldest end and the newest
\* regular strength is repeated at the newest end.
C7_Original ==
    ret.op = "get_padded_strengths_by_kite" /\ well_formed
        => /\ ~ret.err
           /\ Len(ret.val) = n_tracked + 2
           /\ At(ret.val, oldest_end) = 0
           /\ At(ret.val, newest_end) = newest_strength

\* C7: the padded strengths are periods_tracked*n_k*d + 2 entries: a zero at
\* the newest end (position 0), the time-ordered strengths of the periods in
\* increasing order, and the oldest regular strength once more at the oldest
\* end (the last position).
C7_StrengthPadding ==
    ret.op = "get_padded_strengths_by_kite" /\ well_formed
        => /\ ~ret.err
           /\ Len(ret.val) = n_tracked + 2
           /\ At(ret.val, newest_end) = 0
           /\ At(ret.val, newest_end + 1) = newest_strength
           /\ At(ret.val, oldest_end) = oldest_strength
           /\ At(ret.val, oldest_end - 1) = oldest_strength
           /\ \A p \in 0..(periods_tracked - 1), ndx \in 0..(n_k - 1), ddx \in 0..(d - 1) :
                 At(ret.val, 1 + p * n_k * d + n_k * d - 1 - (ndx * d + ddx))
                     = strength_at(p, ndx, ddx)

C7_Witness ==
    /\ returned_from("get_padded_strengths_by_kite")
    /\ n_tracked >= 4
    /\ At(ret.val, oldest_end) # 0
    /\ At(ret.val, newest_end + 1) # 0
    /\ At(ret.val, newest_end + 1) # At(ret.val, oldest_end)

\* the time-ordered points of the tip of the last call, before padding
regular_points ==
    get_all_time_ordered_points_by_kite_and_tip(variables_xd, n_k, d, periods_tracked,
        ret.arg.kite, parent_map[ret.arg.kite], ret.arg.tip)

\* C8: the padded points of a tip, interior or exterior, are the regular rows
\* in their order between a first row, the first regular point minus
\* infinite_time*u_vec_ref, and a last row, the last regular point plus
\* infinite_time*u_vec_ref; periods_tracked*n_k*d + 3 rows.
C8_PointPadding ==
    ret.op = "get_padded_points_by_kite_and_tip" /\ well_formed
        => /\ ~ret.err
           /\ Len(ret.val) = n_tracked + 3
           /\ SubSeq(ret.val, 2, Len(ret.val) - 1) = regular_points
           /\ \A c \in 1..3 :
                 /\ At(ret.val, 0)[c]
                       = At(regular_points, 0)[c] - infinite_time * u_vec_ref[c]
                 /\ At(ret.val, -1)[c]
                       = At(regular_points, -1)[c] + infinite_time * u_vec_ref[c]

C8_Witness ==
    /\ returned_from("get_padded_points_by_kite_and_tip")
    /\ ret.arg.tip = "ext"
    /\ u_vec_ref = <<2, 1, -1>>
    /\ At(ret.val, 0)[1] = At(ret.val, 1)[1] - 2000
    /\ At(ret.val, -1)[3] = At(ret.val, -2)[3] - 1000

\* the points filament row joins
start_point(row) == SubSeq(row, 1, 3)

end_point(row) == SubSeq(row, 4, 6)

\* some filament of the returned list starts or ends at point
is_corner(point) ==
    \E k \in 1..Len(ret.val) :
        start_point(ret.val[k]) = point \/ end_point(ret.val[k]) = point

\* the padded sequences of the kite of the last call
padded_now == padded_of(current_args(ret.arg.kite))

\* C9 as claimed: of the rings built for rdx in [1, n_rings), one has the
\* leading extension point (the first padded point) as a corner and one the
\* trailing extension point (the last padded point).
C9_Original ==
    ret.op = "get_list_of_filaments_by_kite" /\ well_formed
        => /\ ~ret.err
           /\ is_corner(At(padded_now.points_int, 0)) \/ is_corner(At(padded_now.points_ext, 0))
           /\ is_corner(At(padded_now.points_int, -1)) \/ is_corner(At(padded_now.points_ext, -1))

\* C9: the rings built for rdx in [1, n_rings) read the padded points 1 to
\* n_rings and never the first padded point: the trailing extension points
\* (the last padded points) are corners of the last ring, and with a nonzero
\* reference velocity the leading extension points are corners of no ring.
C9_TrailingExtensionOnly ==
    ret.op = "get_list_of_filaments_by_kite" /\ well_formed
        => /\ ~ret.err
           /\ ret.reads.points = 1..(ret.n_points_int - 1)
           /\ ret.n_points_int = ret.n_points_ext
           /\ start_point(ret.val[Len(ret.val) - 2]) = At(padded_now.points_int, -1)
           /\ end_point(ret.val[Len(ret.val)]) = At(padded_now.points_ext, -1)
           /\ u_vec_ref # <<0, 0, 0>>
                 => /\ ~is_corner(At(padded_now.points_int, 0))
                    /\ ~is_corner(At(padded_now.points_ext, 0))

C9_Witness ==
    /\ returned_from("get_list_of_filaments_by_kite")
    /\ u_vec_ref # <<0, 0, 0>>
    /\ n_tracked >= 2
    /\ is_corner(At(padded_now.points_int, -1))
    /\ ~is_corner(At(padded_now.points_int, 0))

\* C10: get_number_of_rings_per_kite is the length of the padded strengths,
\* and every index the ring loop reads exists: strengths rdx-1 and rdx, points
\* rdx and rdx+1, none negative, none past the end.
C10_ReadsInRange ==
    ret.op = "get_list_of_filaments_by_kite" /\ well_formed
        => /\ ~ret.err
           /\ get_number_of_rings_per_kite(n_k, d, periods_tracked) = ret.n_strengths
           /\ ret.reads.strengths \subseteq 0..(ret.n_strengths - 1)
           /\ ret.reads.points \subseteq 0..(ret.n_points_int - 1)
           /\ ret.reads.points \subseteq 0..(ret.n_points_ext - 1)

C10_Witness ==
    /\ returned_from("get_list_of_filaments_by_kite")
    /\ 0 \in ret.reads.strengths
    /\ ret.n_strengths - 1 \in ret.reads.strengths
    /\ ret.n_points_int - 1 \in ret.reads.points
    /\ ret.n_strengths >= 6

(***************************************************************************)
(* Ring indices outside the valid range.                                   *)
(***************************************************************************)
\* the last call asked for one ring by its index
ring_call ==
    ret.op \in {"get_vortex_ring_filaments", "get_list_of_filaments_by_kite_and_ring"}

\* rdx is a ring of a kite with n_rings padded strengths: 1 <= rdx < n_rings
rdx_in_range(rdx) ==
    (1 <= rdx) /\ (rdx < get_number_of_rings_per_kite(n_k, d, periods_tracked))

\* C11: asking for a ring whose index rdx is outside [1, n_rings) (0, negative,
\* n_rings) fails with an error and returns no ring.
C11_OutOfRangeFails ==
    ring_call /\ well_formed /\ ~rdx_in_range(ret.arg.rdx)
        => ret.err /\ ret.val = <<>>

(***************************************************************************)
(* Unknown quantity types and missing component variables.                 *)
(***************************************************************************)
\* C12: get_vector_var called with a quantity type other than 'pos' or 'vel', or
\* with one of the three component variables absent, fails with an error and
\* returns no vector.
C12_MissingComponentFails ==
    /\ ret.op = "get_vector_var"
    /\ (ret.arg.pos_vel \notin {"pos", "vel"}) \/ (ret.arg.missing # {})
    => ret.err /\ ret.val = <<>>

(***************************************************************************)
(* Stream lengths.                                                         *)
(***************************************************************************)
\* every position stream has n_k*d + 1 samples
positions_with_start == \A nm \in DOMAIN variables_xd : Len(variables_xd[nm]) = n_k * d + 1

\* every strength stream has n samples
strengths_of_length(n) == \A nm \in DOMAIN variables_xl : Len(variables_xl[nm]) = n

\* C13 as stated: position streams and strength streams that all have
\* n_k*d + 1 samples give the filament table of a kite without an error.
C13_Original ==
    /\ ret.op = "get_list_of_filaments_by_kite"
    /\ positions_with_start /\ strengths_of_length(n_k * d + 1)
    => ~ret.err

\* C13: with position streams of n_k*d + 1 samples, the filament table of a kite
\* is built without an error exactly when the strength streams have n_k*d
\* samples (they carry no start sample); it then has 7 entries in every row.
C13_StrengthLength ==
    ret.op = "get_list_of_filaments_by_kite" /\ positions_with_start
        => /\ ret.err <=> ~strengths_of_length(n_k * d)
           /\ \A r \in 1..Len(ret.val) : Len(ret.val[r]) = 7

C13_Witness ==
    /\ returned_from("get_list_of_filaments_by_kite")
    /\ positions_with_start /\ strengths_of_length(n_k * d)
    /\ n_k = 3 /\ d = 2 /\ periods_tracked = 2
    /\ Len(ret.val) = 39

\* the last call read position streams, strength streams, or both
reads_positions ==
    ret.op \in {"get_time_ordered_wake_var_without_start",
                "get_time_ordered_wake_var_with_start",
                "get_all_time_ordered_points_by_kite_and_tip",
                "get_padded_points_by_kite_and_tip"}

reads_strengths ==
    ret.op \in {"get_time_ordered_strength", "get_padded_strengths_by_kite"}

reads_both ==
    ret.op \in {"get_vortex_ring_filaments", "get_list_of_filaments_by_kite",
                "get_list_of_filaments_by_kite_and_ring", "get_list_of_all_filaments"}

\* C14: a position or strength stream whose length is not the one the
\* reordering expects for (n_k, d) makes every call that reads it fail with an
\* error, and no table is returned.
C14_LengthMismatchFails ==
    \/ reads_positions /\ ~positions_with_start
    \/ reads_strengths /\ ~strengths_of_length(n_k * d)
    \/ reads_both /\ ~well_formed
    => ret.err /\ ret.val = <<>>

C14_Witness ==
    /\ ret.op = "get_list_of_all_filaments" /\ ret.err
    /\ \E nm \in DOMAIN variables_xd : Len(variables_xd[nm]) = n_k * d + 2
    /\ strengths_of_length(n_k * d)
    /\ n_k * d >= 2

(***************************************************************************)
(* The kernel.                                                             *)
(***************************************************************************)
\* the arguments of a filament call
obs_of(seg_data) == SubSeq(seg_data, 1, 3)

p1_of(seg_data) == SubSeq(seg_data, 4, 6)

p2_of(seg_data) == SubSeq(seg_data, 7, 9)

\* the same filament run through from its other end: (X, P2, P1, -Gamma, epsilon)
swapped(seg_data) ==
    obs_of(seg_data) \o p2_of(seg_data) \o p1_of(seg_data)
        \o <<0 - seg_data[10], seg_data[11]>>

\* the velocity is the zero vector: the direction or the factor is zero
zero_velocity(sol) == (sol.dir = <<0, 0, 0>>) \/ (sol.scale.factor = 0)

\* a and b hold the same two norms, in either order
same_pair(a, b) ==
    \/ (a[1] = b[1]) /\ (a[2] = b[2])
    \/ (a[1] = b[2]) /\ (a[2] = b[1])

\* two kernel expressions with the same value: both zero, or the same
\* direction times factor, the same sum of norms and the same denominator,
\* up to the order of the operands of the sums and products
same_velocity(s, t) ==
    \/ zero_velocity(s) /\ zero_velocity(t)
    \/ /\ \A k \in 1..3 : s.dir[k] * s.scale.factor = t.dir[k] * t.scale.factor
       /\ same_pair(s.scale.num, t.scale.num)
       /\ same_pair(s.scale.den.ori.norms, t.scale.den.ori.norms)
       /\ s.scale.den.ori.dot = t.scale.den.ori.dot
       /\ s.scale.den.reg.eps * s.scale.den.reg.eps
             = t.scale.den.reg.eps * t.scale.den.reg.eps
       /\ s.scale.den.reg.norm = t.scale.den.reg.norm

\* C15: filament() on (X, P2, P1, -Gamma, epsilon) returns the same induced
\* velocity as on (X, P1, P2, Gamma, epsilon).
C15_SwapSymmetry ==
    ret.op = "filament" => same_velocity(ret.val, filament(swapped(ret.arg)))

C15_Witness ==
    /\ ret.op = "filament"
    /\ ~zero_velocity(ret.val)
    /\ ret.val.scale.num[1] # ret.val.scale.num[2]
    /\ ret.val.dir # filament(swapped(ret.arg)).dir

\* (r1 * r2) * (r1 * r2 + dot) is positive: r1 * r2 exceeds the root of the
\* product of the two squares by the floor of the norms, so it is positive and
\* it exceeds -dot as soon as that product is at least dot ** 2
ori_positive(ori) ==
    (ori.dot >= 0) \/ (ori.norms[1].sq * ori.norms[2].sq >= ori.dot * ori.dot)

\* den is positive even with the floor of the norms left out
den_positive_without_floor(den) ==
    \/ /\ den.ori.norms[1].sq * den.ori.norms[2].sq > 0
       /\ \/ den.ori.dot >= 0
          \/ den.ori.norms[1].sq * den.ori.norms[2].sq > den.ori.dot * den.ori.dot
    \/ (den.reg.eps # 0) /\ (den.reg.norm.sq > 0)

\* X lies on the line through P1 and P2 (or P1 = P2)
collinear(seg_data) ==
    cross(vec_add_scaled(p2_of(seg_data), -1, p1_of(seg_data)),
          vec_add_scaled(obs_of(seg_data), -1, p1_of(seg_data))) = <<0, 0, 0>>

\* C16: for epsilon > 0 the denominator of filament() is strictly positive for
\* every X, P1, P2 (without the floor of the smoothed norm it still is, unless
\* X = P1 = P2), and when X is collinear with P1 and P2 the cross product and
\* the induced velocity are zero.
C16_DenominatorPositive ==
    ret.op = "filament" /\ ret.arg[11] > 0
        => /\ ori_positive(ret.val.scale.den.ori)
           /\ \/ den_positive_without_floor(ret.val.scale.den)
              \/ obs_of(ret.arg) = p1_of(ret.arg) /\ obs_of(ret.arg) = p2_of(ret.arg)
           /\ collinear(ret.arg)
                 => (ret.val.dir = <<0, 0, 0>>) /\ zero_velocity(ret.val)

C16_Witness ==
    /\ ret.op = "filament"
    /\ ret.arg = <<1, 1, 1, 0, 0, 0, 2, 2, 2, 2, 1>>
    /\ ret.val.scale.den.ori.norms[1].sq * ret.val.scale.den.ori.norms[2].sq
          = ret.val.scale.den.ori.dot * ret.val.scale.den.ori.dot
    /\ ret.val.scale.den.ori.dot < 0

\* C17: the self-test input (Gamma = 1, end points (0,0,1000) and (0,0,-1000),
\* epsilon = 1e-2, observation point (0,1,0)) gives a squared residual of at
\* most 1e-8, so test_filament logs no error.
C17_SelfTestPasses == ret.op = "test_filament" => ~ret.logged

\* the induced velocity as the Biot-Savart formula states it, with r1 = X - P1,
\* r2 = X - P2, r0 = P2 - P1 and |.| the smoothed norm:
\* (r1 x r2) * [Gamma / (4 pi) * (|r1| + |r2|)]
\*     / [|r1| * |r2| * (|r1| * |r2| + r1.r2) + (epsilon * |r0|) ** 2]
kernel_formula(X, P1, P2, Gamma, eps) ==
    LET r1 == vec_add_scaled(X, -1, P1)
        r2 == vec_add_scaled(X, -1, P2)
        r0 == vec_add_scaled(P2, -1, P1)
    IN  [dir |-> cross(r1, r2),
         scale |-> [factor |-> Gamma,
                    num |-> <<smooth_norm(r1), smooth_norm(r2)>>,
                    den |-> [ori |-> [norms |-> <<smooth_norm(r1), smooth_norm(r2)>>,
                                      dot |-> dot(r1, r2)],
                             reg |-> [eps |-> eps, norm |-> smooth_norm(r0)]]]]

\* C18: the induced velocity filament() returns is the Biot-Savart formula, for
\* every input, and it is a scalar multiple of r1 x r2.
C18_KernelFormula ==
    ret.op = "filament"
        => LET expected == kernel_formula(obs_of(ret.arg), p1_of(ret.arg),
                               p2_of(ret.arg), ret.arg[10], ret.arg[11])
           IN  /\ ret.val = expected
               /\ same_velocity(ret.val, expected)
               /\ cross(ret.val.dir, expected.dir) = <<0, 0, 0>>
               /\ dot(ret.val.dir, expected.dir) >= 0

C18_Witness ==
    /\ ret.op = "filament"
    /\ ret.arg = <<0, 1, 0, 0, 0, 0, 2, 0, 0, 2, 30>>
    /\ ret.val.dir = <<0, 0, 2>>
    /\ ret.val.scale.den.ori.dot = 1

(***************************************************************************)
(* The sum over the segment table.                                         *)
(***************************************************************************)
\* the permutations of 1..n
perms(n) == {p \in [1..n -> 1..n] : \A i \in 1..n : \E j \in 1..n : p[j] = i}

\* the kernel applied to each column alone, the columns taken in the order p
each_alone(name, segment_list, p) ==
    dense([j \in 1..Len(segment_list) |-> filament_fun(name, segment_list[p[j]])])

\* C19: evaluate_symbolic_on_segments_and_sum returns the sum over all columns
\* of the kernel applied to that column alone: every column of the map is the
\* kernel of its own column whatever the order of evaluation, and the total is
\* the same for every permutation of the columns.
C19_SumOfColumns ==
    ret.op = sum_call
        => /\ \A j \in 1..Len(ret.all) :
                 ret.all[j] # <<>> =>
                     ret.all[j] = filament_fun(ret.arg.filament_fun,
                                               ret.arg.segment_list[j])
           /\ ret.pc = "done" =>
                 \A p \in perms(Len(ret.arg.segment_list)) :
                     ret.val = sum2(each_alone(ret.arg.filament_fun,
                                               ret.arg.segment_list, p))

C19_Witness ==
    /\ ret.op = sum_call /\ ret.pc = "done"
    /\ ret.order = <<3, 1, 2>>
    /\ ret.arg.filament_fun = "dir_times_Gamma"
    /\ ret.arg.segment_list[1] # ret.arg.segment_list[2]
    /\ ret.arg.segment_list[2] # ret.arg.segment_list[3]
    /\ ret.arg.segment_list[1] # ret.arg.segment_list[3]
    /\ ret.val # <<0, 0, 0>>

(***************************************************************************)
(* The segment table.                                                      *)
(***************************************************************************)
\* column j of a table of rows
column(table, j) == dense([r \in 1..Len(table) |-> table[r][j]])

assembled == ret.op = all_call /\ ret.pc = "done" /\ ~ret.err

\* the last call repeated the call before it with the same inputs
repeated == "calls" \in DOMAIN ret /\ ret.calls = 2

C22_SelfTestNeverAborts ==
    ret.op = "test_filament"
        => /\ ~ret.err
           /\ ret.val = <<>>
           /\ ret.logged \in test_filament_logs

C22_Witness ==
    /\ ret.op = "test_filament"
    /\ ret.logged /\ TRUE \in test_filament_logs
    /\ ~ret.err /\ ret.val = <<>>

(***************************************************************************)
(* The inputs are only read.                                               *)
(***************************************************************************)
\* C23: no step of building the filament table, one ring or the segment table,
\* nor of the sum over a segment table, changes the caller's variables (xd, xl,
\* q), options (n_k, d, periods_tracked, epsilon), architecture or reference
\* velocity.
C23_InputsOnlyRead == [][UNCHANGED inputs]_vars

C23_Witness ==
    /\ assembled
    /\ Len(ret.val[1]) = 3 * MaxKites * (MaxNk * MaxD * MaxPeriods + 1)
    /\ ret.args.variables_xd = variables_xd
    /\ ret.args.variables_xl = variables_xl
    /\ DOMAIN variables_xl = xl_names(1..MaxKites, MaxPeriods)
    /\ well_formed

(***************************************************************************)
(* The layout of a column of the segment table.                            *)
(***************************************************************************)
\* C24: what get_biot_savart_segment_list writes is what filament() reads: in
\* every column entries 0-2 are the observation point, 3-5 the start point and
\* 6-8 the end point of the filament, 9 its strength and 10 epsilon, with and
\* without the normal, which takes entries 11-13 and shifts nothing.
C24_LayoutAgrees ==
    ret.op = "get_biot_savart_segment_list"
        => /\ \A j \in 1..Len(ret.val[1]) :
                 LET col == column(ret.val, j)
                     fil == column(ret.arg.filament_list, j)
                     q == variables_q[ret.arg.kite]
                 IN  /\ Len(fil) = 7
                     /\ Len(col) = IF ret.arg.include_normal_info THEN 14 ELSE 11
                     /\ SubSeq(col, 1, 3) = q
                     /\ SubSeq(col, 4, 6) = SubSeq(fil, 1, 3)
                     /\ SubSeq(col, 7, 9) = SubSeq(fil, 4, 6)
                     /\ col[10] = fil[7]
                     /\ col[11] = epsilon
                     /\ ret.arg.include_normal_info
                           => SubSeq(col, 12, 14) = ret.arg.n_hat
                     /\ filament(col) = kernel_formula(q, SubSeq(fil, 1, 3),
                                            SubSeq(fil, 4, 6), fil[7], epsilon)
           /\ LET padded == padded_of(current_args(kite_nodes[1]))
                  ring == get_vortex_ring_filaments(padded.strengths,
                              padded.points_ext, padded.points_int, 1)
                  sol == filament(column(ret.val, 2))
              IN  /\ column(ret.arg.filament_list, 2) = ring[2]
                  /\ sol.scale.factor = At(padded.strengths, 1) - At(padded.strengths, 0)
                  /\ sol.scale.den.reg.eps = epsilon
                  /\ sol.scale.den.reg.norm =
                        smooth_norm(vec_add_scaled(At(padded.points_ext, 1), -1,
                                                   At(padded.points_int, 1)))

C24_Witness ==
    /\ ret.op = "get_biot_savart_segment_list"
    /\ ret.arg.include_normal_info /\ ret.arg.n_hat = <<2, -1, 2>>
    /\ epsilon = 2 /\ ret.arg.kite = 2
    /\ Len(ret.val) = 14 /\ Len(ret.val[1]) >= 12
    /\ column(ret.val, 2)[10] # 0
    /\ column(ret.val, 2)[10] # 2
    /\ SubSeq(column(ret.val, 2), 4, 6) # SubSeq(column(ret.val, 2), 7, 9)
    /\ SubSeq(column(ret.val, 2), 12, 14) = <<2, -1, 2>>
    /\ filament(column(ret.val, 2)).scale.den.reg.eps = 2

(***************************************************************************)
(* Strengths and points of one ring belong to one sample.                  *)
(***************************************************************************)
\* the position sample (ndx, ddx) of a period, for a tip of the kite of the last call
point_at(tip, period, ndx, ddx) ==
    dense([c \in 1..Len(dims) |->
        get_wake_var_at_ndx_ddx(n_k, d,
            variables_xd[xd_name(dims[c], tip, period, ret.arg.kite,
                                 parent_map[ret.arg.kite])],
            FALSE, ndx, ddx)])

\* the ring whose leading edge is the sample (ndx, ddx) of a period
ring_of_sample(period, ndx, ddx) ==
    1 + period * (n_k * d) + ((n_k * d) - 1 - (ndx * d + ddx))

\* the three rows of ring rdx in the list of one kite
rows_of_ring(list, rdx) == SubSeq(list, 3 * (rdx - 1) + 1, 3 * (rdx - 1) + 3)

\* the last call built the list of one kite
listed == ret.op = "get_list_of_filaments_by_kite" /\ ~ret.err

\* C25: every finite ring rdx in 1..periods_tracked*n_k*d takes its strength
\* padded_strengths[rdx] and its leading corners, the interior and exterior
\* points at rdx, from one and the same sample (period, ndx, ddx).
C25_StrengthAndPointsOfOneSample ==
    listed
        => /\ { ring_of_sample(p, ndx, ddx) :
                    p \in 0..(periods_tracked - 1), ndx \in 0..(n_k - 1),
                    ddx \in 0..(d - 1) } = 1..n_tracked
           /\ \A p \in 0..(periods_tracked - 1), ndx \in 0..(n_k - 1),
                 ddx \in 0..(d - 1) :
                 LET rdx == ring_of_sample(p, ndx, ddx)
                     ring == rows_of_ring(ret.val, rdx)
                 IN  /\ At(padded_now.strengths, rdx) = strength_at(p, ndx, ddx)
                     /\ At(padded_now.points_int, rdx) = point_at("int", p, ndx, ddx)
                     /\ At(padded_now.points_ext, rdx) = point_at("ext", p, ndx, ddx)
                     /\ ring[1][7] = strength_at(p, ndx, ddx)
                     /\ ring[3][7] = strength_at(p, ndx, ddx)
                     /\ start_point(ring[2]) = point_at("int", p, ndx, ddx)
                     /\ end_point(ring[2]) = point_at("ext", p, ndx, ddx)

C25_Witness ==
    /\ listed /\ ret.arg.kite = 2
    /\ n_k = 3 /\ d = 2 /\ periods_tracked = 2
    /\ u_vec_ref = u_vec_ref_of(0)
    /\ ring_of_sample(1, 1, 1) = 9
    /\ rows_of_ring(ret.val, 9)[1][7] = strength_at(1, 1, 1)
    /\ rows_of_ring(ret.val, 9)[1][7] # strength_at(1, 2, 0)
    /\ start_point(rows_of_ring(ret.val, 9)[2]) = point_at("int", 1, 1, 1)
    /\ strength_at(1, 1, 1) = variables_xl[xl_name(1, 2, 0)][5]

(***************************************************************************)
(* One ring asked for by its index, and the same ring in the kite's list.  *)
(***************************************************************************)
\* the reference velocity get_list_of_filaments_by_kite is given is the one
\* get_list_of_filaments_by_kite_and_ring computes: velocity_ref * xhat
same_reference_velocity ==
    u_vec_ref = vec_add_scaled(<<0, 0, 0>>, u_vec_ref[1], xhat)

\* C26: for every kite and every rdx in [1, n_rings), the three segments of
\* get_list_of_filaments_by_kite_and_ring are rows 3*(rdx-1) .. 3*(rdx-1)+2 of
\* the list of get_list_of_filaments_by_kite for the same kite, options and
\* reference velocity; the extension points lie equally far out in both.
C26_RingIsRowsOfList ==
    /\ (/\ ret.op = "get_list_of_filaments_by_kite_and_ring" /\ ~ret.err
        /\ rdx_in_range(ret.arg.rdx) /\ same_reference_velocity)
          => ret.val = rows_of_ring(
                 get_list_of_filaments_by_kite(current_args(ret.arg.kite)),
                 ret.arg.rdx)
    /\ (listed /\ same_reference_velocity)
          => \A rdx \in 1..(ret.n_strengths - 1) :
                 get_list_of_filaments_by_kite_and_ring(
                     ring_args_of(variables_xd, variables_xl, u_vec_ref[1],
                         periods_tracked, n_k, d, ret.arg.kite,
                         parent_map[ret.arg.kite]),
                     rdx) = rows_of_ring(ret.val, rdx)

C26_Witness ==
    /\ ret.op = "get_list_of_filaments_by_kite_and_ring" /\ ~ret.err
    /\ same_reference_velocity /\ u_vec_ref[1] = 1
    /\ n_tracked >= 6
    /\ ret.arg.rdx = n_tracked + 1
    /\ ret.val = rows_of_ring(
           get_list_of_filaments_by_kite(current_args(ret.arg.kite)), n_tracked + 1)
    /\ ret.val[3][4] = ret.val[3][1] + 1000

(***************************************************************************)
(* The rings of one kite form a chain.                                     *)
(***************************************************************************)
\* the edge that would close a ring: exterior trailing -> interior trailing
omitted_edge(ring) == end_point(ring[3]) \o start_point(ring[1])

\* a segment with its direction reversed
reversed_edge(row) == end_point(row) \o start_point(row)

\* C27: for every rdx with 1 <= rdx < n_rings - 1, the interior-trailing and
\* exterior-trailing points of ring rdx are the interior-leading and
\* exterior-leading points of ring rdx + 1, so the edge ring rdx leaves out is
\* the interior-leading -> exterior-leading segment of ring rdx + 1, reversed.
C27_RingsFormChain ==
    listed
        => \A rdx \in 1..(ret.n_strengths - 2) :
               LET ring == rows_of_ring(ret.val, rdx)
                   next == rows_of_ring(ret.val, rdx + 1)
               IN  /\ start_point(ring[1]) = end_point(next[1])
                   /\ start_point(ring[1]) = start_point(next[2])
                   /\ end_point(ring[3]) = end_point(next[2])
                   /\ end_point(ring[3]) = start_point(next[3])
                   /\ omitted_edge(ring) = reversed_edge(next[2])

C27_Witness ==
    /\ listed /\ ret.n_strengths >= 6
    /\ u_vec_ref = u_vec_ref_of(0)
    /\ Len(ret.val) = 3 * (ret.n_strengths - 1)
    /\ omitted_edge(rows_of_ring(ret.val, 2)) = reversed_edge(rows_of_ring(ret.val, 3)[2])
    /\ start_point(rows_of_ring(ret.val, 2)[1]) # end_point(rows_of_ring(ret.val, 2)[3])
    /\ start_point(rows_of_ring(ret.val, 2)[1]) # end_point(rows_of_ring(ret.val, 2)[1])
    /\ omitted_edge(rows_of_ring(ret.val, ret.n_strengths - 2))
           = reversed_edge(rows_of_ring(ret.val, ret.n_strengths - 1)[2])

(***************************************************************************)
(* The strengths of the interior-leading -> exterior-leading segments.     *)
(***************************************************************************)
\* the strength of the interior-leading -> exterior-leading segment of ring rdx
middle_strength(list, rdx) == rows_of_ring(list, rdx)[2][7]

\* these strengths of rings 1 .. n, added up
RECURSIVE middle_strengths_sum(_, _)
middle_strengths_sum(list, n) ==
    IF n = 0 THEN 0
    ELSE middle_strengths_sum(list, n - 1) + middle_strength(list, n)

\* C28: over all rings of one kite the strengths of the interior-leading ->
\* exterior-leading segments add up to the last padded strength minus the
\* first, which is zero; the first ring's segment carries that ring's whole
\* strength and the last ring's, the extension ring, carries none.
C28_MiddleStrengthsTelescope ==
    listed
        => LET n_rings == ret.n_strengths
               strengths == padded_now.strengths
           IN  /\ Len(ret.val) = 3 * (n_rings - 1)
               /\ At(strengths, 0) = 0
               /\ middle_strengths_sum(ret.val, n_rings - 1)
                     = At(strengths, -1) - At(strengths, 0)
               /\ middle_strengths_sum(ret.val, n_rings - 1) = oldest_strength
               /\ middle_strength(ret.val, 1) = rows_of_ring(ret.val, 1)[1][7]
               /\ middle_strength(ret.val, 1) = newest_strength
               /\ middle_strength(ret.val, n_rings - 1) = 0
               /\ rows_of_ring(ret.val, n_rings - 1)[1][7] = oldest_strength
               /\ \A n \in 1..(n_rings - 1) :
                     middle_strengths_sum(ret.val, n) = rows_of_ring(ret.val, n)[1][7]

C28_Witness ==
    /\ listed /\ ret.n_strengths >= 6
    /\ u_vec_ref = u_vec_ref_of(0)
    /\ middle_strength(ret.val, 1) > 0
    /\ middle_strength(ret.val, 2) # 0
    /\ middle_strength(ret.val, ret.n_strengths - 1) = 0
    /\ rows_of_ring(ret.val, ret.n_strengths - 1)[1][7] # 0
    /\ middle_strengths_sum(ret.val, ret.n_strengths - 1) = At(padded_now.strengths, -1)
    /\ middle_strengths_sum(ret.val, ret.n_strengths - 1) # middle_strength(ret.val, 1)

(***************************************************************************)
(* Which position samples end up in a filament.                            *)
(***************************************************************************)
\* the start sample (stream index 0) of a period, for a tip of the kite of the
\* last call
start_sample_at(tip, period) ==
    dense([c \in 1..Len(dims) |->
        get_wake_var_at_ndx_ddx(n_k, d,
            variables_xd[xd_name(dims[c], tip, period, ret.arg.kite,
                                 parent_map[ret.arg.kite])],
            TRUE, 0, 0)])

\* C29: with two or more tracked periods, the start sample of the position
\* streams of a period other than the last is no end point of any filament,
\* and every other position sample of every tracked period is an end point
\* of at least one filament.
C29_StartSamplesLeftOut ==
    (listed /\ periods_tracked >= 2)
        => \A tip \in Tips :
              /\ \A p \in 0..(periods_tracked - 2) : ~is_corner(start_sample_at(tip, p))
              /\ is_corner(start_sample_at(tip, periods_tracked - 1))
              /\ \A p \in 0..(periods_tracked - 1), ndx \in 0..(n_k - 1),
                    ddx \in 0..(d - 1) : is_corner(point_at(tip, p, ndx, ddx))

C29_Witness ==
    /\ listed /\ periods_tracked = 2 /\ n_k * d >= 3
    /\ ~is_corner(start_sample_at("int", 0))
    /\ ~is_corner(start_sample_at("ext", 0))
    /\ is_corner(start_sample_at("int", 1))
    /\ is_corner(point_at("ext", 0, 0, 0))
    /\ start_sample_at("int", 0) # start_sample_at("int", 1)
    /\ start_sample_at("int", 0) = <<variables_xd[xd_name("x", "int", 0, ret.arg.kite, 0)][1],
                                     variables_xd[xd_name("y", "int", 0, ret.arg.kite, 0)][1],
                                     variables_xd[xd_name("z", "int", 0, ret.arg.kite, 0)][1]>>

(***************************************************************************)
(* The blocks of the kites in the table of all filaments.                  *)
(***************************************************************************)
\* the variables without the streams of the other kites
only_kite(variables, kite) ==
    [nm \in {n \in DOMAIN variables : n.kite = kite} |-> variables[nm]]

\* the variables with the streams of the other kites set to zero
others_zeroed(variables, kite) ==
    [nm \in DOMAIN variables |->
        IF nm.kite = kite THEN variables[nm]
        ELSE dense([i \in 1..Len(variables[nm]) |-> 0])]

\* every sample of the streams of the other kites
samples_of_others(variables, kite) ==
    UNION { SeqToSet(variables[nm]) : nm \in {n \in DOMAIN variables : n.kite # kite} }

\* the rows of the kite handled in pass k of the loop: 3 * (n_tracked + 1) rows
block_of(list, k) ==
    SubSeq(list, (k - 1) * (3 * (n_tracked + 1)) + 1, k * (3 * (n_tracked + 1)))

\* the list of one kite, built from the given variables
list_from(xd, xl, kite) ==
    get_list_of_filaments_by_kite(
        args_of(xd, xl, u_vec_ref, periods_tracked, n_k, d, kite, parent_map[kite]))

\* C30: the table of get_list_of_all_filaments holds one block per kite in the
\* order of kite_nodes; the block of kite k is what the streams named for k and
\* parent_map[k] alone give, it holds no point and no ring strength of another
\* kite, and it stays as it is when the streams of the other kites change,
\* although one args dictionary is overwritten from kite to kite.
C30_BlocksPerKite ==
    (ret.op = all_call /\ ~ret.err)
        => /\ Len(ret.filaments) = ret.kdx * (3 * (n_tracked + 1))
           /\ ret.kdx > 0 =>
                 /\ ret.args.kite = kite_nodes[ret.kdx]
                 /\ ret.args.parent = parent_map[kite_nodes[ret.kdx]]
           /\ ret.pc = "done" =>
                 /\ ret.kdx = Len(kite_nodes)
                 /\ ret.val = transpose(ret.filaments)
           /\ \A k \in 1..ret.kdx :
                 LET kite == kite_nodes[k]
                     block == block_of(ret.filaments, k)
                 IN  /\ block = list_from(variables_xd, variables_xl, kite)
                     /\ block = list_from(only_kite(variables_xd, kite),
                                          only_kite(variables_xl, kite), kite)
                     /\ block = list_from(others_zeroed(variables_xd, kite),
                                          others_zeroed(variables_xl, kite), kite)
                     /\ u_vec_ref = u_vec_ref_of(0) =>
                           \A r \in 1..Len(block) :
                               /\ SeqToSet(SubSeq(block[r], 1, 6))
                                      \cap samples_of_others(variables_xd, kite) = {}
                               /\ r % 3 # 2 =>
                                      block[r][7] \notin samples_of_others(variables_xl, kite)

C30_Witness ==
    /\ assembled
    /\ kite_nodes = <<2, 1>> /\ n_tracked >= 4
    /\ u_vec_ref = u_vec_ref_of(0)
    /\ block_of(ret.filaments, 1) = list_from(variables_xd, variables_xl, 2)
    /\ block_of(ret.filaments, 2) = list_from(variables_xd, variables_xl, 1)
    /\ block_of(ret.filaments, 1) # block_of(ret.filaments, 2)
    /\ ret.args.kite = 1
    /\ ret.val[4][1] = variables_xd[xd_name("x", "int", 0, 2, 0)][n_k * d + 1]

====
